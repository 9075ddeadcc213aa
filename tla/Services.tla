------------------------------ MODULE Services ------------------------------
(***************************************************************************)
(* What the services do, put together: a call of any method (ServiceCall), *)
(* the two sequences of calls, DeleteOrgCleanly and Wait of a Poller, and  *)
(* the kind of an error whatever Forward answers and whatever names of a   *)
(* customer are in the text.  Init chooses which of the four runs; the     *)
(* others stand still.                                                     *)
(***************************************************************************)
EXTENDS ServiceCall

CONSTANTS
  Parts,          \* the parts that may run: "call", "organization", "handle", "answers"
  OrgNetworks,    \* the networks of the organization that is deleted
  WorkspaceOf,    \* the parent of a network that is a workspace, or None
  None,
  Refreshers,     \* goroutines that Refresh the handle of a Poller
  MaxChanges,     \* bound: how often its snapshot changes
  CustomerWords   \* words that names of a customer may bring into an answer

ASSUME ChangesAssumption == MaxChanges \in Nat
ASSUME SomeMethod == Methods # {}

VARIABLES
  part,
  options, step, todo, done, failed, verdict, org, networks, users, orphans, touched,
  state, changes, passed, current, waiting, local, read, fetched, ended, told, update,
  heard

orgVars  == <<options, step, todo, done, failed, verdict, org, networks, users, orphans, touched>>
pollVars == <<state, changes, passed, current, waiting, local, read, fetched, ended, told, update>>
allVars  == <<part, vars, orgVars, pollVars, heard>>

Organization == INSTANCE OrgDeletion WITH Networks <- OrgNetworks, told <- verdict
Handle == INSTANCE Poller WITH pc <- waiting

CallIdle ==
  /\ call = (CHOOSE c \in Methods : TRUE) /\ given = {} /\ bound = FALSE
  /\ principal = FALSE /\ once = FALSE /\ support = "unknown" /\ served = TRUE /\ there = FALSE /\ pc = "done" /\ tried = 0
  /\ attempt = 0 /\ answer = NoAnswer /\ outcome = "notAsked" /\ flying = FALSE /\ late = 0
  /\ vacant = TRUE /\ agreed = FALSE /\ acts = 0

OrgIdle ==
  /\ options = [given |-> {}, service |-> FALSE, skipUserCheck |-> FALSE, keepOrg |-> FALSE]
  /\ step = "returned" /\ todo = {} /\ done = {} /\ failed = {} /\ verdict = "listFailed"
  /\ org = "enabled" /\ networks = {} /\ users = FALSE /\ orphans = {} /\ touched = FALSE

PollIdle ==
  LET first == [state |-> "PROCESSING", at |-> 0] IN
  /\ state = "PROCESSING" /\ changes = 0 /\ passed = {} /\ current = first /\ local = first
  /\ waiting = "returned" /\ read = first /\ fetched = [r \in Refreshers |-> first]
  /\ ended = TRUE /\ told = "error" /\ update = [previous |-> first, value |-> first]

Silence == heard = [means |-> "nothing"]

ServicesInit ==
  /\ part \in Parts
  /\ \/ part = "call" /\ Init /\ OrgIdle /\ PollIdle /\ Silence
     \/ part = "organization" /\ CallIdle /\ Organization!Init /\ PollIdle /\ Silence
     \/ part = "handle" /\ CallIdle /\ OrgIdle /\ Handle!Init /\ Silence
     \/ part = "answers" /\ CallIdle /\ OrgIdle /\ PollIdle
          /\ \E h \in Handlers : \E verb \in h.request.verbs, place \in h.request.places :
               \E names \in SUBSET CustomerWords, inMessage \in BOOLEAN :
                 heard = [answer |-> Says(h, verb, place, names, inMessage),
                          means |-> h.means]

ServicesNext ==
  \/ part = "call" /\ Next /\ UNCHANGED <<part, orgVars, pollVars, heard>>
  \/ part = "organization" /\ Organization!Next /\ UNCHANGED <<part, vars, pollVars, heard>>
  \/ part = "handle" /\ Handle!Next /\ UNCHANGED <<part, vars, orgVars, heard>>

ServicesSpec == ServicesInit /\ [][ServicesNext]_allVars

FairServicesSpec ==
  /\ ServicesSpec
  /\ WF_allVars(part = "call" /\ CallStep /\ UNCHANGED <<part, orgVars, pollVars, heard>>)
  /\ WF_allVars(part = "call" /\ Network /\ UNCHANGED <<part, orgVars, pollVars, heard>>)
  /\ WF_allVars(part = "organization" /\ Organization!Caller
                  /\ UNCHANGED <<part, vars, pollVars, heard>>)
  /\ WF_allVars(part = "handle" /\ Handle!Waiter /\ UNCHANGED <<part, vars, orgVars, heard>>)
-----------------------------------------------------------------------------
\* Every part keeps to its types.
TypesOK == TypeOK /\ Organization!TypeOK /\ (part = "handle" => Handle!TypeOK)

\* What a call that is not safe to do twice promises its caller: it is acted on
\* once at most, and what the caller learns of it can be relied on, then and later.
Watched == part = "call" /\ Guarded
Promise == INSTANCE DeliveryPromise WITH
  Calls <- {"guarded"}, Repeats <- {},
  effects <- [c \in {"guarded"} |-> IF Watched THEN acts ELSE 0],
  verdict <- [c \in {"guarded"} |-> IF Watched THEN Learned ELSE "open"]

KeepsPromise == Promise!Spec

\* What DeleteOrgCleanly promises (OrgDeletion).
NoOrphans == Organization!NoOrphans
OnlyWhileDisabled == Organization!OnlyWhileDisabled

\* What OnUpdate and Wait of a Poller report (Poller).
UpdatesGoForward == part = "handle" => Handle!UpdatesGoForward

\* The kind of an error is the one that the handler means, whatever names of a
\* customer are in its text, but for the answers that Misleads lists: those, and no
\* others, classifyErrorResponse takes for something else.
MisreadOnlyWhereMisled ==
  part = "answers" => (Classify(heard.answer) = heard.means <=> ~Misleads(heard.answer))

\* Every call returns, every deletion of an organization too, and Wait once the
\* snapshot stays at an end that it knows.
EveryoneReturns ==
  /\ part = "call" => CallReturns
  /\ part = "organization" => Organization!DeletionReturns
  /\ part = "handle" => Handle!WaitEnds
=============================================================================
