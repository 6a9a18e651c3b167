-------------------------- MODULE UIAbilityLifecycle --------------------------
(***************************************************************************)
(* UIAbilityLifecycleManager: the life of a UI ability under the scene     *)
(* board.  The scene board asks for a session to be started, shown,        *)
(* minimised or closed; other abilities start it by call; the manager      *)
(* drives the ability's process through the application manager and keeps  *)
(* a request that comes in the middle of a transition as the record's      *)
(* pendingState_.  Every handler runs under sessionLock_; what it has read *)
(* before taking the lock is a step of its own.                            *)
(*                                                                         *)
(* Left out: hidden, preloaded, prelaunched, specified, hooked and native  *)
(* module starts, debug mode, plug-ins, restarts, the low-memory map.      *)
(***************************************************************************)
EXTENDS Naturals, Sequences, FiniteSets

CONSTANTS
    Sessions,        \* persistent ids of the scene board
    UIRecords,       \* ability records
    NewWants,        \* wants a session is started with as new ones
    Environments,    \* what else happens in a behaviour, and how often
    NoRecord, NoWant

(***************************************************************************)
(* What may happen besides starts, minimising and closing:                 *)
(*   newWant      a session is started with a new want                     *)
(*   show         a session is shown, its want an old one                  *)
(*   showNew      a session is shown, its want taken as a new one          *)
(*   byCall       the ability is started by call                           *)
(*   freezed      an ability answers that it is frozen                     *)
(*   disown       a restarted scene board disowns a session                *)
(*   attachCrash  a process dies while it is being attached                *)
(*   attachFails  a process cannot be attached to the status bar or parent *)
(*   late         other steps overtake a close between search and lock     *)
(***************************************************************************)
Inputs == {"newWant", "show", "showNew", "byCall", "freezed", "disown", "attachCrash",
           "attachFails", "late"}

ASSUME UIAssumption ==
    /\ Environments \subseteq [inputs : SUBSET Inputs, requests : Nat, crashes : Nat]
    /\ NoRecord \notin UIRecords /\ NoWant \notin NewWants

VARIABLES
    rec,                \* the ability records
    created,            \* the records that exist
    sessionAbilityMap,  \* sessionAbilityMap_
    tmpAbilityMap,      \* tmpAbilityMap_: started by call, no session yet
    terminateList,      \* terminateAbilityList_, which is searched, never ordered
    calls,              \* requests that have found their record and wait for sessionLock_
    inputs,             \* the environment of this behaviour, which never changes
    requests, crashes   \* bounds: how many there may still be

vars == <<rec, created, sessionAbilityMap, tmpAbilityMap, terminateList, calls, inputs, requests, crashes>>

States == {"INITIAL", "FOREGROUNDING", "FOREGROUND", "BACKGROUNDING", "BACKGROUND", "TERMINATING"}
Pendings == {"INITIAL", "FOREGROUND", "BACKGROUND"}
AnyWant == NewWants \cup {NoWant}

(***************************************************************************)
(* A record, the delayed events and tasks that carry its id, and its       *)
(* process.  "told" is the want the ability knows of, "asked" the want of  *)
(* the last start it should know of, "goal" what was last asked of it.     *)
(***************************************************************************)
Record ==
    [state : States, pending : Pendings, closing : BOOLEAN, ready : BOOLEAN,
     want : AnyWant, lastWant : AnyWant, update : BOOLEAN, isNewWant : BOOLEAN,
     byCall : {"no", "FOREGROUND", "BACKGROUND"},
     timers : SUBSET {"load", "foreground", "background", "terminate", "kill"},
     tasks : SUBSET {"CompleteBackground", "CompleteTerminate", "OnAbilityDied"},
     process : {"none", "loading", "up", "dead"}, watched : BOOLEAN, killed : BOOLEAN,
     attaching : BOOLEAN, foregrounding : BOOLEAN,
     toApp : Seq({"foreground", "background", "terminate"}),
     told : AnyWant, asked : AnyWant, goal : {"FOREGROUND", "BACKGROUND", "closed"}]

NewRecord(w, byCall, goal) ==
    [state |-> "INITIAL", pending |-> "INITIAL", closing |-> FALSE, ready |-> FALSE,
     want |-> w, lastWant |-> NoWant, update |-> FALSE, isNewWant |-> FALSE,
     byCall |-> byCall, timers |-> {}, tasks |-> {},
     process |-> "none", watched |-> FALSE, killed |-> FALSE,
     attaching |-> FALSE, foregrounding |-> FALSE, toApp |-> <<>>,
     told |-> w, asked |-> w, goal |-> goal]

Init ==
    /\ rec = [r \in UIRecords |-> NewRecord(NoWant, "no", "closed")]
    /\ created = {}
    /\ sessionAbilityMap = [s \in Sessions |-> NoRecord]
    /\ tmpAbilityMap = {}
    /\ terminateList = {}
    /\ calls = {}
    /\ \E e \in Environments : inputs = e.inputs /\ requests = e.requests /\ crashes = e.crashes

-----------------------------------------------------------------------------
(* What the record's own functions do to it. *)

IsForeground(x) == x.state \in {"FOREGROUND", "FOREGROUNDING"}

Schedule(x, order) == IF x.process = "up" THEN [x EXCEPT !.toApp = Append(@, order)] ELSE x

LoadAbility(x) == [x EXCEPT !.timers = @ \cup {"load"}, !.process = "loading", !.told = x.want]

ForegroundAbility(x) ==
    Schedule([x EXCEPT !.state = "FOREGROUNDING", !.isNewWant = FALSE,
                       !.told = IF x.isNewWant THEN x.want ELSE @], "foreground")

PostForegroundTimeoutTask(x) == [x EXCEPT !.timers = @ \cup {"foreground"}]

RemoveForegroundTimeoutTask(x) == [x EXCEPT !.timers = @ \ {"foreground"}]

\* the application manager answers with OnAbilityRequestDone
MoveToForeground(x) ==
    [PostForegroundTimeoutTask(x) EXCEPT !.state = "FOREGROUNDING", !.foregrounding = TRUE]

\* Mutant: no delayed task watches the way to the background.
BackgroundAbility_Unwatched(x) == Schedule([x EXCEPT !.state = "BACKGROUNDING"], "background")

BackgroundAbility(x) ==
    Schedule([x EXCEPT !.timers = @ \cup {"background"}, !.state = "BACKGROUNDING"], "background")

MoveToBackground(x) == BackgroundAbility([x EXCEPT !.isNewWant = FALSE])

Terminate(x) ==
    Schedule([x EXCEPT !.timers = @ \cup {"terminate"}, !.state = "TERMINATING"], "terminate")

\* the application manager ends the ability and, when it is the last one, the process
TerminateAbility(x) == [x EXCEPT !.killed = TRUE]

ProcessForegroundAbility(x) ==
    CASE ~x.ready               -> LoadAbility(x)
      [] x.ready /\ x.state = "FOREGROUND"
                                -> ForegroundAbility(PostForegroundTimeoutTask(x))
      [] OTHER                  -> MoveToForeground(x)

UpdateWantByLastWant(x) ==
    IF x.update /\ x.lastWant # NoWant
    THEN [x EXCEPT !.update = FALSE, !.want = x.lastWant, !.lastWant = NoWant, !.isNewWant = TRUE]
    ELSE [x EXCEPT !.update = FALSE]

-----------------------------------------------------------------------------
(* The parts of the manager that several of its operations share. *)

EraseAbilityRecord(r) ==
    [s \in Sessions |-> IF sessionAbilityMap[s] = r THEN NoRecord ELSE sessionAbilityMap[s]]

\* which record comes next makes no difference
NewRecords == IF created = UIRecords THEN {} ELSE {CHOOSE r \in UIRecords \ created : TRUE}

\* requests other steps may overtake between the search and the lock
LateCalls == IF "late" \in inputs THEN {"minimize", "close", "recover"} ELSE {"minimize"}

\* a step of other threads than those that hold a record and wait for the lock
Overtakes == (\A c \in calls : c.op \in LateCalls) /\ UNCHANGED <<calls, inputs>>

Request ==
    /\ requests > 0
    /\ requests' = requests - 1

\* to come forward: remembered while a transition is under way
ForegroundRequest(x) ==
    LET y == [x EXCEPT !.pending = "FOREGROUND", !.goal = "FOREGROUND"]
    IN  IF x.pending # "INITIAL" THEN y ELSE ProcessForegroundAbility(y)

\* Mutant: the want of a start that has to wait is not kept.
StartRecord_DropsWant(x, w) ==
    ForegroundRequest(
        CASE w = NoWant                            -> x
          [] w # NoWant /\ x.pending # "INITIAL"   -> [x EXCEPT !.asked = w]
          [] OTHER                                 -> [x EXCEPT !.asked = w, !.want = w, !.isNewWant = TRUE])

StartRecord(x, w) ==
    LET dropped == x.pending # "INITIAL"
    IN  ForegroundRequest(
          CASE w = NoWant             -> IF dropped THEN x ELSE [x EXCEPT !.isNewWant = FALSE]
            [] w # NoWant /\ dropped  -> [x EXCEPT !.asked = w, !.lastWant = w]
            [] OTHER                  -> [x EXCEPT !.asked = w, !.want = w, !.isNewWant = TRUE])

CloseUIAbilityInner(x) ==
    CASE IsForeground(x)         -> MoveToBackground([x EXCEPT !.pending = "BACKGROUND"])
      [] x.state = "BACKGROUND"  -> Terminate(x)
      [] OTHER                   -> x

\* Mutant: a pending request to come forward is not cleared when it is fulfilled.
CompleteForegroundSuccess_KeepsPending(x) ==
    LET y == UpdateWantByLastWant([x EXCEPT !.state = "FOREGROUND", !.update = TRUE])
    IN  CASE x.lastWant # NoWant                              -> ForegroundAbility(y)
          [] x.lastWant = NoWant /\ x.pending = "BACKGROUND"  -> MoveToBackground(y)
          [] OTHER                                            -> y

CompleteForegroundSuccess(x) ==
    LET y == UpdateWantByLastWant([x EXCEPT !.state = "FOREGROUND", !.update = TRUE])
    IN  CASE x.lastWant # NoWant       -> ForegroundAbility(y)
          [] x.lastWant = NoWant /\ x.pending = "BACKGROUND" -> MoveToBackground(y)
          [] OTHER                     -> [y EXCEPT !.pending = "INITIAL"]

DispatchTerminate(x) ==
    [x EXCEPT !.timers = @ \ {"terminate"}, !.tasks = @ \cup {"CompleteTerminate"}]

-----------------------------------------------------------------------------
(* Requests. *)

\* GenerateAbilityRecord: a record under way by call is taken for the session's
StartUIAbility(s, w) ==
    /\ w # NoWant => "newWant" \in inputs
    /\ Request
    /\ \/ /\ sessionAbilityMap[s] = NoRecord
          /\ tmpAbilityMap = {}
          /\ \E r \in NewRecords :
                /\ created' = created \cup {r}
                /\ sessionAbilityMap' = [sessionAbilityMap EXCEPT ![s] = r]
                /\ rec' = [rec EXCEPT ![r] =
                             LoadAbility([NewRecord(w, "no", "FOREGROUND") EXCEPT !.pending = "FOREGROUND"])]
       \/ /\ sessionAbilityMap[s] = NoRecord
          /\ \E r \in tmpAbilityMap :
                rec' = [rec EXCEPT ![r] = StartRecord([@ EXCEPT !.pending = "FOREGROUND"], w)]
          /\ UNCHANGED <<created, sessionAbilityMap>>
       \/ /\ sessionAbilityMap[s] # NoRecord
          /\ rec' = [rec EXCEPT ![sessionAbilityMap[s]] = StartRecord(@, w)]
          /\ UNCHANGED <<created, sessionAbilityMap>>
    /\ Overtakes
    /\ UNCHANGED <<tmpAbilityMap, terminateList, crashes>>

ChangeUIAbilityVisibilityBySCB(s, isNewWant) ==
    /\ (IF isNewWant THEN "showNew" ELSE "show") \in inputs
    /\ sessionAbilityMap[s] # NoRecord
    /\ Request
    /\ LET r == sessionAbilityMap[s]
       IN  rec' = [rec EXCEPT ![r] = ForegroundRequest([@ EXCEPT !.isNewWant = isNewWant])]
    /\ Overtakes
    /\ UNCHANGED <<created, sessionAbilityMap, tmpAbilityMap, terminateList, crashes>>

\* an ability is wanted by call: in the background, or shown as well
CallAbilityLocked(s, to) ==
    /\ "byCall" \in inputs
    /\ \/ /\ sessionAbilityMap[s] = NoRecord
          /\ tmpAbilityMap = {}
          /\ \E r \in NewRecords :
                /\ created' = created \cup {r}
                /\ tmpAbilityMap' = {r}
                /\ rec' = [rec EXCEPT ![r] = NewRecord(NoWant, to, to)]
          /\ Request
       \/ /\ sessionAbilityMap[s] # NoRecord
          /\ to = "FOREGROUND"
          /\ rec' = [rec EXCEPT ![sessionAbilityMap[s]] = ForegroundRequest(@)]
          /\ Request
          /\ UNCHANGED <<created, tmpAbilityMap>>
    /\ Overtakes
    /\ UNCHANGED <<sessionAbilityMap, terminateList, crashes>>

\* the scene board has made the session
CallUIAbilityBySCB(s) ==
    /\ \E r \in tmpAbilityMap :
          /\ tmpAbilityMap' = tmpAbilityMap \ {r}
          /\ IF sessionAbilityMap[s] # NoRecord
             THEN UNCHANGED <<rec, sessionAbilityMap>>
             ELSE /\ sessionAbilityMap' = [sessionAbilityMap EXCEPT ![s] = r]
                  /\ rec' = [rec EXCEPT ![r] = LoadAbility([@ EXCEPT !.pending = rec[r].byCall])]
    /\ Overtakes
    /\ UNCHANGED <<created, terminateList, requests, crashes>>

\* or it does not within BY_CALL_TIMEOUT
NotifyStartupExceptionBySCB ==
    /\ tmpAbilityMap # {}
    /\ tmpAbilityMap' = {}
    /\ Overtakes
    /\ UNCHANGED <<rec, created, sessionAbilityMap, terminateList, requests, crashes>>

\* GetUIAbilityRecordBySessionInfo, which gives the lock back before the request is made
FindRecord(s, op) ==
    /\ sessionAbilityMap[s] # NoRecord
    /\ Request
    /\ \A c \in calls : c.op \in LateCalls
    /\ calls' = calls \cup {[op |-> op, rec |-> sessionAbilityMap[s]]}
    /\ UNCHANGED <<rec, created, sessionAbilityMap, tmpAbilityMap, terminateList, inputs, crashes>>

MinimizeUIAbilityBySCB(s) == FindRecord(s, "minimize")
CloseUIAbilityBySCB(s) == FindRecord(s, "close")
UpdateSessionInfoBySCB(s) == "disown" \in inputs /\ FindRecord(s, "recover")

\* Mutant: a request that comes during a transition is not remembered.
MinimizeUIAbility_Drops(c) ==
    /\ c.op = "minimize"
    /\ LET x == [rec[c.rec] EXCEPT !.asked = NoWant, !.goal = "BACKGROUND"]
       IN  rec' = [rec EXCEPT ![c.rec] =
             IF x.pending = "INITIAL" /\ x.state = "FOREGROUND"
             THEN MoveToBackground([x EXCEPT !.pending = "BACKGROUND"]) ELSE x]
    /\ calls' = calls \ {c}
    /\ UNCHANGED <<created, sessionAbilityMap, tmpAbilityMap, terminateList, inputs, requests, crashes>>

MinimizeUIAbility(c) ==
    /\ c.op = "minimize"
    /\ LET x == [rec[c.rec] EXCEPT !.asked = NoWant, !.goal = "BACKGROUND"]
       IN  rec' = [rec EXCEPT ![c.rec] =
             CASE x.pending # "INITIAL" -> [x EXCEPT !.pending = "BACKGROUND"]
               [] x.pending = "INITIAL" /\ x.state = "FOREGROUND"
                                        -> MoveToBackground([x EXCEPT !.pending = "BACKGROUND"])
               [] OTHER                 -> x]
    /\ calls' = calls \ {c}
    /\ UNCHANGED <<created, sessionAbilityMap, tmpAbilityMap, terminateList, inputs, requests, crashes>>

\* PrepareCloseUIAbility comes first; a recovering scene board does not wait for a transition
CloseUIAbility(c) ==
    LET r == c.rec
        x == [rec[r] EXCEPT !.closing = TRUE, !.goal = "closed"]
    IN  /\ c.op \in {"close", "recover"}
        /\ calls' = calls \ {c}
        /\ IF rec[r].closing /\ ~IsForeground(rec[r])
           THEN UNCHANGED <<rec, sessionAbilityMap, terminateList>>
           ELSE /\ sessionAbilityMap' = EraseAbilityRecord(r)
                /\ terminateList' = IF x.state = "INITIAL" THEN terminateList \ {r}
                                                           ELSE terminateList \cup {r}
                /\ rec' = [rec EXCEPT ![r] =
                     CASE x.state = "INITIAL" ->
                            TerminateAbility([x EXCEPT !.timers = @ \ {"load"}])
                       [] x.state # "INITIAL" /\ x.pending = "INITIAL" -> CloseUIAbilityInner(x)
                       [] x.state # "INITIAL" /\ x.pending # "INITIAL" /\ c.op = "close" ->
                            [x EXCEPT !.pending = "BACKGROUND"]
                       [] OTHER -> CloseUIAbilityInner(
                            RemoveForegroundTimeoutTask([x EXCEPT !.pending = "BACKGROUND"]))]
        /\ UNCHANGED <<created, tmpAbilityMap, inputs, requests, crashes>>

-----------------------------------------------------------------------------
(* The process of a record and the application manager. *)

\* IsContainsAbility and DoProcessAttachment, before the lock
BeginAttach(r) ==
    /\ rec[r].process = "loading" /\ ~rec[r].attaching /\ ~rec[r].ready
    /\ \E s \in Sessions : sessionAbilityMap[s] = r
    /\ rec' = [rec EXCEPT ![r].attaching = TRUE]
    /\ Overtakes
    /\ UNCHANGED <<created, sessionAbilityMap, tmpAbilityMap, terminateList, requests, crashes>>

\* The load timer is off; when DoProcessAttachment has failed, TerminateSession only asks the scene
\* board to close the session.
AttachAbilityThread(r) ==
    /\ rec[r].attaching
    /\ LET x == [rec[r] EXCEPT !.attaching = FALSE, !.timers = @ \ {"load"}, !.ready = TRUE,
                               !.process = IF @ = "dead" THEN @ ELSE "up", !.watched = TRUE]
       IN  \/ rec' = [rec EXCEPT ![r] =
                        IF x.byCall = "BACKGROUND" THEN MoveToBackground(x) ELSE MoveToForeground(x)]
           \/ "attachFails" \in inputs /\ rec' = [rec EXCEPT ![r] = x]
    /\ Overtakes
    /\ UNCHANGED <<created, sessionAbilityMap, tmpAbilityMap, terminateList, requests, crashes>>

\* GetAbilityRecordByToken
Known(r) == r \in terminateList \/ \E s \in Sessions : sessionAbilityMap[s] = r

OnAbilityRequestDone(r) ==
    /\ rec[r].foregrounding /\ rec[r].process = "up"
    /\ LET x == [rec[r] EXCEPT !.foregrounding = FALSE]
       IN  rec' = [rec EXCEPT ![r] = IF Known(r) THEN ForegroundAbility(UpdateWantByLastWant(x)) ELSE x]
    /\ Overtakes
    /\ UNCHANGED <<created, sessionAbilityMap, tmpAbilityMap, terminateList, requests, crashes>>

\* the ability has carried out the oldest order it was given
Answered(r, order) ==
    /\ rec[r].process = "up" /\ rec[r].toApp # <<>>
    /\ Head(rec[r].toApp) = order
    /\ Overtakes
    /\ UNCHANGED <<created, tmpAbilityMap, requests, crashes>>

Rest(r) == [rec[r] EXCEPT !.toApp = Tail(@)]

DispatchForeground(r, reply) ==
    LET x == RemoveForegroundTimeoutTask(Rest(r))
    IN  /\ Answered(r, "foreground")
        /\ IF ~Known(r) \/ x.state # "FOREGROUNDING"
           THEN rec' = [rec EXCEPT ![r] = Rest(r)] /\ UNCHANGED <<sessionAbilityMap, terminateList>>
           ELSE \/ /\ reply = "done"
                   /\ rec' = [rec EXCEPT ![r] = CompleteForegroundSuccess(x)]
                   /\ UNCHANGED <<sessionAbilityMap, terminateList>>
                \/ /\ reply = "freezed"
                   /\ rec' = [rec EXCEPT ![r] = [x EXCEPT !.state = "BACKGROUND"]]
                   /\ UNCHANGED <<sessionAbilityMap, terminateList>>
                \/ /\ reply = "failed"   \* HandleForegroundFailed
                   /\ rec' = [rec EXCEPT ![r] = CloseUIAbilityInner([x EXCEPT !.closing = TRUE])]
                   /\ sessionAbilityMap' = EraseAbilityRecord(r)
                   /\ terminateList' = terminateList \cup {r}

DispatchBackground(r) ==
    /\ Answered(r, "background")
    /\ rec' = [rec EXCEPT ![r] =
         IF Known(r) /\ rec[r].state = "BACKGROUNDING"
         THEN [Rest(r) EXCEPT !.timers = @ \ {"background"}, !.tasks = @ \cup {"CompleteBackground"}]
         ELSE Rest(r)]
    /\ UNCHANGED <<sessionAbilityMap, terminateList>>

AbilityTerminated(r) ==
    /\ Answered(r, "terminate")
    /\ rec' = [rec EXCEPT ![r] =
         IF Known(r) /\ rec[r].state = "TERMINATING" THEN DispatchTerminate(Rest(r)) ELSE Rest(r)]
    /\ UNCHANGED <<sessionAbilityMap, terminateList>>

\* OnSchedulerDied, or OnProcessDied for a process that was not attached yet
ProcessDies(r) ==
    /\ rec[r].process \in {"loading", "up"}
    /\ rec[r].attaching => "attachCrash" \in inputs
    /\ \/ rec[r].killed /\ UNCHANGED crashes
       \/ ~rec[r].killed /\ crashes > 0 /\ crashes' = crashes - 1
    /\ rec' = [rec EXCEPT ![r] =
         [rec[r] EXCEPT !.process = "dead", !.foregrounding = FALSE, !.toApp = <<>>,
                        !.tasks = IF rec[r].process = "up" /\ ~rec[r].watched THEN @
                                  ELSE @ \cup {"OnAbilityDied"}]]
    /\ Overtakes
    /\ UNCHANGED <<created, sessionAbilityMap, tmpAbilityMap, terminateList, requests>>

-----------------------------------------------------------------------------
(* Tasks and delayed events. *)

\* Mutant: the terminate list is left alone.
CompleteBackground_NoTerminate(r, x) ==
    LET y == CASE x.pending = "FOREGROUND" -> [MoveToForeground(x) EXCEPT !.update = (x.lastWant # NoWant)]
               [] x.pending = "BACKGROUND" -> [x EXCEPT !.state = "BACKGROUND", !.pending = "INITIAL",
                                                        !.lastWant = NoWant]
               [] OTHER                    -> [x EXCEPT !.state = "BACKGROUND"]
    IN  /\ rec' = [rec EXCEPT ![r] = IF x.state # "BACKGROUNDING" THEN x ELSE y]
        /\ Overtakes
        /\ UNCHANGED <<created, sessionAbilityMap, tmpAbilityMap, terminateList, requests, crashes>>

\* the records of the terminate list that are in the background are terminated, this one too
CompleteBackground(r, x) ==
    LET y == CASE x.pending = "FOREGROUND" -> [MoveToForeground(x) EXCEPT !.update = (x.lastWant # NoWant)]
               [] x.pending = "BACKGROUND" -> [x EXCEPT !.state = "BACKGROUND", !.pending = "INITIAL",
                                                        !.lastWant = NoWant]
               [] OTHER                    -> [x EXCEPT !.state = "BACKGROUND"]
        after == [rec EXCEPT ![r] = y]
    IN  /\ rec' = IF x.state # "BACKGROUNDING" THEN [rec EXCEPT ![r] = x]
                  ELSE [q \in UIRecords |->
                          IF q \in terminateList /\ after[q].state = "BACKGROUND"
                          THEN Terminate(after[q]) ELSE after[q]]
        /\ Overtakes
        /\ UNCHANGED <<created, sessionAbilityMap, tmpAbilityMap, terminateList, requests, crashes>>

CompleteTerminate(r, x) ==
    /\ IF x.state # "TERMINATING"
       THEN rec' = [rec EXCEPT ![r] = x] /\ UNCHANGED terminateList
       ELSE /\ rec' = [rec EXCEPT ![r] = TerminateAbility([x EXCEPT !.watched = FALSE])]
            /\ terminateList' = terminateList \ {r}
    /\ Overtakes
    /\ UNCHANGED <<created, sessionAbilityMap, tmpAbilityMap, requests, crashes>>

OnAbilityDied(r, x) ==
    LET over == CASE x.state = "INITIAL"       -> {"load"}
                  [] x.state = "FOREGROUNDING" -> {"foreground"}
                  [] x.state = "BACKGROUNDING" -> {"background"}
                  [] OTHER                     -> {}
    IN  /\ rec' = [rec EXCEPT ![r] =
             DispatchTerminate([x EXCEPT !.timers = @ \ over, !.state = "TERMINATING", !.killed = TRUE])]
        /\ terminateList' = terminateList \cup {r}
        /\ sessionAbilityMap' = EraseAbilityRecord(r)
        /\ Overtakes
        /\ UNCHANGED <<created, tmpAbilityMap, requests, crashes>>

RunTask(r, task) ==
    /\ task \in rec[r].tasks
    /\ LET x == [rec[r] EXCEPT !.tasks = @ \ {task}]
       IN  \/ task = "CompleteBackground" /\ CompleteBackground(r, x)
           \/ task = "CompleteTerminate" /\ CompleteTerminate(r, x)
           \/ task = "OnAbilityDied" /\ OnAbilityDied(r, x)

Expired(r, timer) == [rec[r] EXCEPT !.timers = @ \ {timer}]

BackgroundTimeout(r) ==
    /\ "background" \in rec[r].timers
    /\ CompleteBackground(r, Expired(r, "background"))

\* DelayCompleteTerminate
TerminateTimeout(r) ==
    /\ "terminate" \in rec[r].timers
    /\ rec' = [rec EXCEPT ![r] = [Expired(r, "terminate") EXCEPT !.timers = @ \cup {"kill"}]]
    /\ Overtakes
    /\ UNCHANGED <<created, sessionAbilityMap, tmpAbilityMap, terminateList, requests, crashes>>

KillTimeout(r) ==
    /\ "kill" \in rec[r].timers
    /\ CompleteTerminate(r, Expired(r, "kill"))

\* HandleLoadTimeout and HandleForegroundTimeout: the scene board is told, the process ended
OnTimeOut(r, timer) ==
    /\ timer \in rec[r].timers
    /\ IF Known(r) /\ (timer = "foreground" => rec[r].state = "FOREGROUNDING")
       THEN /\ rec' = [rec EXCEPT ![r] = [Expired(r, timer) EXCEPT !.killed = TRUE]]
            /\ sessionAbilityMap' = EraseAbilityRecord(r)
       ELSE rec' = [rec EXCEPT ![r] = Expired(r, timer)] /\ UNCHANGED sessionAbilityMap
    /\ Overtakes
    /\ UNCHANGED <<created, tmpAbilityMap, terminateList, requests, crashes>>

-----------------------------------------------------------------------------
Tasks(r) == \E t \in {"CompleteBackground", "CompleteTerminate", "OnAbilityDied"} : RunTask(r, t)
Timeouts(r) == BackgroundTimeout(r) \/ TerminateTimeout(r) \/ KillTimeout(r)
               \/ \E t \in {"load", "foreground"} : OnTimeOut(r, t)
Granted(c) == MinimizeUIAbility(c) \/ CloseUIAbility(c)
Answers(r) == OnAbilityRequestDone(r) \/ (\E a \in {"done", "failed"} : DispatchForeground(r, a))
              \/ ("freezed" \in inputs /\ DispatchForeground(r, "freezed"))
              \/ DispatchBackground(r) \/ AbilityTerminated(r)

Next ==
    \/ \E s \in Sessions :
          \/ \E w \in AnyWant : StartUIAbility(s, w)
          \/ \E f \in BOOLEAN : ChangeUIAbilityVisibilityBySCB(s, f)
          \/ \E to \in {"FOREGROUND", "BACKGROUND"} : CallAbilityLocked(s, to)
          \/ CallUIAbilityBySCB(s)
          \/ MinimizeUIAbilityBySCB(s)
          \/ CloseUIAbilityBySCB(s)
          \/ UpdateSessionInfoBySCB(s)
    \/ NotifyStartupExceptionBySCB
    \/ \E c \in calls : Granted(c)
    \/ \E r \in created :
          BeginAttach(r) \/ AttachAbilityThread(r) \/ Answers(r) \/ ProcessDies(r) \/ Tasks(r) \/ Timeouts(r)

\* Nothing is expected of the ability: it may hang, but tasks, delayed events and threads that
\* wait for the lock run, and a process the application manager ends does end.
Spec == Init /\ [][Next]_vars
FairSpec ==
    /\ Spec
    /\ \A r \in UIRecords : /\ \A t \in {"CompleteBackground", "CompleteTerminate", "OnAbilityDied"} :
                                  WF_vars(RunTask(r, t))
                            /\ WF_vars(BackgroundTimeout(r)) /\ WF_vars(TerminateTimeout(r))
                            /\ WF_vars(KillTimeout(r)) /\ WF_vars(AttachAbilityThread(r))
                            /\ \A t \in {"load", "foreground"} : WF_vars(OnTimeOut(r, t))
                            /\ WF_vars(ProcessDies(r) /\ rec[r].killed)
                            /\ \A op \in {"minimize", "close", "recover"} :
                                  WF_vars(\E c \in calls : c.op = op /\ c.rec = r /\ Granted(c))

-----------------------------------------------------------------------------
(* What the manager promises. *)

\* Type invariant.
TypeOK ==
    /\ rec \in [UIRecords -> Record]
    /\ created \subseteq UIRecords
    /\ sessionAbilityMap \in [Sessions -> UIRecords \cup {NoRecord}]
    /\ tmpAbilityMap \subseteq created /\ terminateList \subseteq created
    /\ calls \subseteq [op : {"minimize", "close", "recover"}, rec : created]
    /\ \E e \in Environments : inputs = e.inputs /\ requests \in 0..e.requests /\ crashes \in 0..e.crashes

\* A record belongs to one session, waits for one, or is being ended, never two of these:
\* sessionAbilityMap_, tmpAbilityMap_ and terminateAbilityList_ are searched by token in turn,
\* and the answer must not depend on which is searched first.
PlacedOnce ==
    /\ \A s, q \in Sessions : sessionAbilityMap[s] = sessionAbilityMap[q] => s = q \/ sessionAbilityMap[s] = NoRecord
    /\ \A s \in Sessions : sessionAbilityMap[s] \notin terminateList \cup tmpAbilityMap
    /\ terminateList \cap tmpAbilityMap = {}

\* pendingState_ is only set while a transition is under way, whose end acts on it: in a state of
\* rest it would have every later request remembered and none carried out.  An ability that
\* answers that it is frozen leaves it set, see the README.
PendingInProgress ==
    "freezed" \notin inputs =>
        \A s \in Sessions : LET r == sessionAbilityMap[s] IN
            r # NoRecord => (rec[r].pending # "INITIAL" <=> rec[r].state \notin {"FOREGROUND", "BACKGROUND"})

\* Where a record is listed, and what is remembered of the requests for it, fit the state it is in.
Consistent == TypeOK /\ PlacedOnce /\ PendingInProgress

\* Attached in vain: only the scene board, which was asked to close the session, can end it.
LeftToSceneBoard(x) == "attachFails" \in inputs /\ x.ready /\ ~x.closing

\* Every transition of a record that is listed has something that ends it should the ability
\* hang: a delayed event, a task, a thread that attaches it, or the end of its process; a load whose
\* process could not be attached has none and waits for the scene board.  New wants and the rarer
\* inputs leave one unwatched, see the README.
Watched ==
    inputs \cap {"newWant", "disown", "attachCrash", "late"} = {} =>
        \A r \in created : LET x == rec[r] IN
            Known(r) /\ x.state \in {"INITIAL", "FOREGROUNDING", "BACKGROUNDING", "TERMINATING"} =>
                \/ x.attaching \/ (x.killed /\ x.process # "dead") \/ "OnAbilityDied" \in x.tasks
                \/ CASE x.state = "INITIAL"       -> "load" \in x.timers \/ LeftToSceneBoard(x)
                     [] x.state = "FOREGROUNDING" -> "foreground" \in x.timers
                     [] x.state = "BACKGROUNDING" -> "background" \in x.timers \/ "CompleteBackground" \in x.tasks
                     [] x.state = "TERMINATING"   -> x.timers \cap {"terminate", "kill"} # {}
                                                     \/ "CompleteTerminate" \in x.tasks

\* A session at rest is where the last request wanted it, whatever was asked for while its
\* earlier transitions were under way (a start by call may lose one, see the README).
GoalReached ==
    "byCall" \notin inputs =>
        \A s \in Sessions : LET r == sessionAbilityMap[s] IN
            r # NoRecord /\ rec[r].pending = "INITIAL" => rec[r].state = rec[r].goal

\* An ability at rest in the foreground knows of the want it was last started with, if it was not
\* minimised since: a want that came during a transition is handed over at its end.  Showing the
\* session in between may take the mark of the new want away, and a start by call may lose the
\* request the want came with, see the README.
LastWantShown ==
    inputs \cap {"show", "showNew", "byCall"} = {} =>
        \A s \in Sessions : LET r == sessionAbilityMap[s] IN
            r # NoRecord /\ rec[r].pending = "INITIAL" /\ rec[r].state = "FOREGROUND" /\ rec[r].asked # NoWant
                => rec[r].told = rec[r].asked

\* Whatever the ability does, a record that is closed, or whose process has died, leaves
\* terminateAbilityList_.  New wants, a frozen ability, a session disowned or closed late and a crash
\* during the attachment are the exceptions, see the README.
CloseEnds ==
    \A r \in UIRecords :
        (r \in terminateList /\ inputs \cap {"newWant", "freezed", "disown", "attachCrash", "late"} = {})
            ~> r \notin terminateList
=============================================================================
