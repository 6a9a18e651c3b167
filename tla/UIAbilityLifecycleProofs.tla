------------------------ MODULE UIAbilityLifecycleProofs ------------------------
(***************************************************************************)
(* UIAbilityLifecycleManager, for any sessions, records, wants, requests   *)
(* and crashes: a record is listed in one place, a request that has to     *)
(* wait is remembered until it was acted on, the last request and the last *)
(* want win, and every transition has something that ends it.              *)
(*                                                                         *)
(* The argument is about one record at a time.  A record of a session is   *)
(* in use (InUse): pendingState_ tells what the end of its transition will *)
(* do, and the ability has at most one order to come forward, which        *)
(* belongs to the transition under way (Orders), so that a late answer is  *)
(* not taken for the end of another.  A record in terminateAbilityList_    *)
(* only goes towards its end (Ending), and each of both is Guarded.        *)
(***************************************************************************)
EXTENDS UIAbilityLifecycle, TLAPS, SequenceTheorems

InSession(r) == \E s \in Sessions : sessionAbilityMap[s] = r

\* None of the inputs that can leave a transition unwatched.
Calm == inputs \cap {"newWant", "disown", "attachCrash", "late"} = {}

\* None of the inputs that can lose a new want.
Quiet == inputs \cap {"show", "showNew", "byCall"} = {}

NoForeground(q) == \A i \in 1..Len(q) : q[i] # "foreground"
OneForeground(q) == \A i, j \in 1..Len(q) : q[i] = "foreground" /\ q[j] = "foreground" => i = j

\* What holds of every record.
Sound(x) ==
    /\ x.state \notin {"INITIAL", "TERMINATING"} \/ x.foregrounding => x.ready
    /\ x.attaching => ~x.ready
    /\ x.ready => x.process \in {"up", "dead"}
    /\ x.process # "up" => x.toApp = <<>>
    /\ "OnAbilityDied" \in x.tasks => x.process = "dead"
    /\ "attachCrash" \notin inputs /\ x.attaching => x.process = "loading"
    /\ "newWant" \notin inputs => x.lastWant = NoWant
    /\ "byCall" \notin inputs => x.byCall = "no"

\* A record in tmpAbilityMap_ was not loaded yet.
Fresh(x) == /\ x.state = "INITIAL" /\ x.byCall # "no" /\ x.process = "none" /\ x.tasks = {}
            /\ ~x.ready /\ ~x.closing /\ ~x.attaching

\* There is at most one order to come forward, and none before the application
\* manager has answered or when the record is not on its way to the foreground.
Orders(x) ==
    /\ x.foregrounding /\ x.process = "up" => x.state = "FOREGROUNDING"
    /\ x.state # "FOREGROUNDING" \/ x.foregrounding => NoForeground(x.toApp)
    /\ OneForeground(x.toApp)

Resting(x) == x.state \in {"FOREGROUND", "BACKGROUND"}

PendingOK(x) ==
    /\ x.pending = "INITIAL" => Resting(x)
    /\ x.state = "FOREGROUND" => x.pending = "INITIAL"
    /\ "freezed" \notin inputs /\ Resting(x) => x.pending = "INITIAL"

\* What was asked for last is where the record is, or what is remembered.
GoalOK(x) == "byCall" \notin inputs =>
                 x.goal = IF x.pending = "INITIAL" THEN x.state ELSE x.pending

\* The want of the last start is kept in lastWant_, is in want_ and marked as new,
\* or is known to the ability.
WantKept(x) ==
    x.asked # NoWant =>
        \/ x.lastWant = x.asked
        \/ /\ x.lastWant = NoWant
           /\ IF x.isNewWant THEN x.want = x.asked ELSE x.told = x.asked

WantOK(x) ==
    Quiet =>
        /\ x.pending = "INITIAL" => x.lastWant = NoWant
        /\ x.pending = "BACKGROUND" => x.asked = NoWant
        /\ x.pending = "INITIAL" /\ x.state = "BACKGROUND" => x.asked = NoWant
        /\ x.state = "FOREGROUND" \/ ~NoForeground(x.toApp) => ~x.isNewWant
        /\ WantKept(x)

\* A record of a session.
InUse(x) == /\ ~x.closing /\ x.state # "TERMINATING"
            /\ Orders(x) /\ PendingOK(x) /\ GoalOK(x) /\ WantOK(x)

\* A record in terminateAbilityList_.
Ending(x) == /\ x.state \in {"FOREGROUNDING", "BACKGROUNDING", "BACKGROUND", "TERMINATING"}
             /\ x.state # "TERMINATING" => x.pending = "BACKGROUND"
             /\ x.ready \/ x.process = "dead"
             /\ Orders(x)

\* The delayed event or the task that ends a transition.
Armed(x) ==
    /\ x.state = "INITIAL" => "load" \in x.timers \/ ("attachFails" \in inputs /\ x.ready)
    /\ x.state = "FOREGROUNDING" => "foreground" \in x.timers
    /\ x.state = "BACKGROUNDING" => "background" \in x.timers \/ "CompleteBackground" \in x.tasks
    /\ x.state = "TERMINATING" => \/ "terminate" \in x.timers \/ "kill" \in x.timers
                                  \/ "CompleteTerminate" \in x.tasks

Guarded(x) ==
    /\ x.process = "dead" => \/ "OnAbilityDied" \in x.tasks
                             \/ x.state = "TERMINATING" /\ "CompleteTerminate" \in x.tasks
    /\ x.process # "dead" => x.attaching \/ x.killed \/ Armed(x)
    /\ x.process = "up" => x.watched

\* A request that waits for sessionLock_ is for a record that has left
\* tmpAbilityMap_; a close that nothing overtakes still finds its session.
CallsOK ==
    /\ \A c \in calls : /\ c.rec \notin tmpAbilityMap
                        /\ c.op = "recover" => "disown" \in inputs
    /\ "late" \notin inputs =>
          /\ \A c \in calls : c.op # "minimize" => InSession(c.rec)
          /\ \A c, d \in calls : c.op # "minimize" /\ d.op # "minimize" => c = d

Places ==
    /\ sessionAbilityMap \in [Sessions -> created \cup {NoRecord}]
    /\ "byCall" \notin inputs => tmpAbilityMap = {}

\* What holds of record r in the place it is in.
RecordOK(r) ==
    /\ Sound(rec[r])
    /\ r \in tmpAbilityMap => Fresh(rec[r])
    /\ InSession(r) => InUse(rec[r])
    /\ Calm /\ r \in terminateList => Ending(rec[r])
    /\ Calm /\ Known(r) => Guarded(rec[r])

\* The inductive invariant.
IInv == /\ TypeOK /\ PlacedOnce /\ Places /\ CallsOK
        /\ \A r \in UIRecords : RecordOK(r)
-------------------------------------------------------------------------------
(* The orders an ability was given.                                        *)

Order == {"foreground", "background", "terminate"}

LEMMA AppendOrder ==
    ASSUME NEW q \in Seq(Order), NEW o \in Order
    PROVE  /\ Append(q, o) \in Seq(Order)
           /\ o # "foreground" /\ NoForeground(q) => NoForeground(Append(q, o))
           /\ o # "foreground" /\ OneForeground(q) => OneForeground(Append(q, o))
           /\ NoForeground(q) => OneForeground(Append(q, o))
  BY DEF NoForeground, OneForeground, Order

LEMMA TailOrder ==
    ASSUME NEW q \in Seq(Order), q # <<>>
    PROVE  /\ Tail(q) \in Seq(Order)
           /\ NoForeground(q) => NoForeground(Tail(q))
           /\ OneForeground(q) => OneForeground(Tail(q))
           /\ Head(q) = "foreground" => ~NoForeground(q)
           /\ Head(q) = "foreground" /\ OneForeground(q) => NoForeground(Tail(q))
<1>1. Len(Tail(q)) = Len(q) - 1 /\ \A i \in 1..Len(Tail(q)) : Tail(q)[i] = q[i + 1]
  OBVIOUS
<1>2. Len(q) \in Nat /\ Len(q) >= 1 /\ Head(q) = q[1]
  OBVIOUS
<1> QED
  BY <1>1, <1>2 DEF NoForeground, OneForeground

LEMMA EmptyOrder == NoForeground(<<>>) /\ OneForeground(<<>>) /\ <<>> \in Seq(Order)
  BY DEF NoForeground, OneForeground
-------------------------------------------------------------------------------
(* What the functions of a record do to it.                                *)

LEMMA ScheduleShape ==
    ASSUME NEW x \in Record, NEW o \in Order
    PROVE  \E q \in Seq(Order) :
              /\ Schedule(x, o) = [x EXCEPT !.toApp = q]
              /\ x.process # "up" => q = x.toApp
              /\ o # "foreground" /\ NoForeground(x.toApp) => NoForeground(q)
              /\ o # "foreground" /\ OneForeground(x.toApp) => OneForeground(q)
              /\ NoForeground(x.toApp) => OneForeground(q)
<1>1. x.toApp \in Seq(Order)
  BY DEF Record, Order
<1>2. CASE x.process = "up"
  <2> DEFINE q == Append(x.toApp, o)
  <2>1. Schedule(x, o) = [x EXCEPT !.toApp = q]
    BY <1>2 DEF Schedule
  <2>2. /\ q \in Seq(Order)
        /\ o # "foreground" /\ NoForeground(x.toApp) => NoForeground(q)
        /\ o # "foreground" /\ OneForeground(x.toApp) => OneForeground(q)
        /\ NoForeground(x.toApp) => OneForeground(q)
    BY <1>1, AppendOrder
  <2> QED
    BY <1>2, <2>1, <2>2
<1>3. CASE x.process # "up"
  <2>1. Schedule(x, o) = [x EXCEPT !.toApp = x.toApp]
    BY <1>3 DEF Schedule, Record
  <2>2. NoForeground(x.toApp) => OneForeground(x.toApp)
    BY DEF NoForeground, OneForeground
  <2> QED
    BY <1>1, <2>1, <2>2
<1> QED
  BY <1>2, <1>3

\* On its way to the background a record has an event and an order more.
LEMMA MoveToBackgroundShape ==
    ASSUME NEW x \in Record
    PROVE  \E q \in Seq(Order) :
              /\ MoveToBackground(x) = [x EXCEPT !.isNewWant = FALSE, !.timers = x.timers \cup {"background"},
                                                 !.state = "BACKGROUNDING", !.toApp = q]
              /\ x.process # "up" => q = x.toApp
              /\ NoForeground(x.toApp) => NoForeground(q)
              /\ OneForeground(x.toApp) => OneForeground(q)
<1> DEFINE z == [x EXCEPT !.isNewWant = FALSE, !.timers = x.timers \cup {"background"},
                          !.state = "BACKGROUNDING"]
<1>1. z \in Record /\ z.process = x.process /\ z.toApp = x.toApp
  BY DEF Record, States
<1>2. MoveToBackground(x) = Schedule(z, "background")
  BY DEF MoveToBackground, BackgroundAbility, Record
<1>3. PICK q \in Seq(Order) :
              /\ Schedule(z, "background") = [z EXCEPT !.toApp = q]
              /\ z.process # "up" => q = z.toApp
              /\ NoForeground(z.toApp) => NoForeground(q)
              /\ OneForeground(z.toApp) => OneForeground(q)
  BY <1>1, ScheduleShape DEF Order
<1>4. [z EXCEPT !.toApp = q] = [x EXCEPT !.isNewWant = FALSE, !.timers = x.timers \cup {"background"},
                                         !.state = "BACKGROUNDING", !.toApp = q]
  BY DEF Record
<1> QED
  BY <1>1, <1>2, <1>3, <1>4

LEMMA TerminateShape ==
    ASSUME NEW x \in Record
    PROVE  \E q \in Seq(Order) :
              /\ Terminate(x) = [x EXCEPT !.timers = x.timers \cup {"terminate"},
                                          !.state = "TERMINATING", !.toApp = q]
              /\ x.process # "up" => q = x.toApp
              /\ NoForeground(x.toApp) => NoForeground(q)
              /\ OneForeground(x.toApp) => OneForeground(q)
<1> DEFINE z == [x EXCEPT !.timers = x.timers \cup {"terminate"}, !.state = "TERMINATING"]
<1>1. z \in Record /\ z.process = x.process /\ z.toApp = x.toApp
  BY DEF Record, States
<1>2. Terminate(x) = Schedule(z, "terminate")
  BY DEF Terminate, Record
<1>3. PICK q \in Seq(Order) :
              /\ Schedule(z, "terminate") = [z EXCEPT !.toApp = q]
              /\ z.process # "up" => q = z.toApp
              /\ NoForeground(z.toApp) => NoForeground(q)
              /\ OneForeground(z.toApp) => OneForeground(q)
  BY <1>1, ScheduleShape DEF Order
<1>4. [z EXCEPT !.toApp = q] = [x EXCEPT !.timers = x.timers \cup {"terminate"},
                                         !.state = "TERMINATING", !.toApp = q]
  BY DEF Record
<1> QED
  BY <1>1, <1>2, <1>3, <1>4

\* An ability that is told to come forward is told a want that is marked as new.
LEMMA ForegroundAbilityShape ==
    ASSUME NEW x \in Record
    PROVE  \E q \in Seq(Order) :
              /\ ForegroundAbility(x) =
                    [x EXCEPT !.state = "FOREGROUNDING", !.isNewWant = FALSE,
                              !.told = IF x.isNewWant THEN x.want ELSE x.told, !.toApp = q]
              /\ x.process # "up" => q = x.toApp
              /\ NoForeground(x.toApp) => OneForeground(q)
<1> DEFINE z == [x EXCEPT !.state = "FOREGROUNDING", !.isNewWant = FALSE,
                          !.told = IF x.isNewWant THEN x.want ELSE x.told]
<1>1. z \in Record /\ z.process = x.process /\ z.toApp = x.toApp
  BY DEF Record, States
<1>2. ForegroundAbility(x) = Schedule(z, "foreground")
  BY DEF ForegroundAbility, Record
<1>3. PICK q \in Seq(Order) :
              /\ Schedule(z, "foreground") = [z EXCEPT !.toApp = q]
              /\ z.process # "up" => q = z.toApp
              /\ NoForeground(z.toApp) => OneForeground(q)
  BY <1>1, ScheduleShape DEF Order
<1>4. [z EXCEPT !.toApp = q] =
           [x EXCEPT !.state = "FOREGROUNDING", !.isNewWant = FALSE,
                     !.told = IF x.isNewWant THEN x.want ELSE x.told, !.toApp = q]
  BY DEF Record
<1> QED
  BY <1>1, <1>2, <1>3, <1>4

LEMMA MoveToForegroundShape ==
    ASSUME NEW x \in Record
    PROVE  MoveToForeground(x) = [x EXCEPT !.timers = x.timers \cup {"foreground"},
                                           !.state = "FOREGROUNDING", !.foregrounding = TRUE]
  BY DEF MoveToForeground, PostForegroundTimeoutTask, Record
-------------------------------------------------------------------------------
(* What requests and answers do to a record.                               *)

\* A request to come forward, whether it is remembered or acted on, leaves a
\* record of a session in use and guarded.
LEMMA ForegroundRequestKeeps ==
    ASSUME NEW x \in Record, Sound(x), ~x.closing, x.state # "TERMINATING", Orders(x), PendingOK(x),
           Quiet => /\ x.pending = "INITIAL" => x.lastWant = NoWant
                    /\ ~NoForeground(x.toApp) => ~x.isNewWant
                    /\ WantKept(x)
    PROVE  LET y == ForegroundRequest(x)
           IN  y \in Record /\ Sound(y) /\ InUse(y) /\ (Guarded(x) => Guarded(y))
<1> DEFINE z == [x EXCEPT !.pending = "FOREGROUND", !.goal = "FOREGROUND"]
           y == ForegroundRequest(x)
<1>1. z \in Record
  BY DEF Record, Pendings
<1>2. CASE x.pending # "INITIAL"
  <2>1. y = z
    BY <1>2 DEF ForegroundRequest
  <2>2. Sound(z)
    BY DEF Sound, Record
  <2>3. Orders(z) /\ PendingOK(z) /\ GoalOK(z)
    BY <1>2 DEF Orders, PendingOK, GoalOK, Resting, Record
  <2>4. WantOK(z)
    BY <1>2 DEF WantOK, WantKept, PendingOK, Record
  <2>5. Guarded(x) => Guarded(z)
    BY DEF Guarded, Armed, Record
  <2>6. ~z.closing /\ z.state # "TERMINATING"
    BY DEF Record
  <2> QED
    BY <1>1, <2>1, <2>2, <2>3, <2>4, <2>5, <2>6 DEF InUse
<1>3. CASE x.pending = "INITIAL" /\ x.state = "FOREGROUND"
  <2> DEFINE v == [z EXCEPT !.timers = z.timers \cup {"foreground"}]
  <2>1. v \in Record /\ v = PostForegroundTimeoutTask(z)
    BY <1>1 DEF PostForegroundTimeoutTask, Record
  <2>2. y = ForegroundAbility(v)
    BY <1>3, <2>1 DEF ForegroundRequest, ProcessForegroundAbility, Sound, Record
  <2>3. PICK q \in Seq(Order) :
              /\ ForegroundAbility(v) =
                    [v EXCEPT !.state = "FOREGROUNDING", !.isNewWant = FALSE,
                              !.told = IF v.isNewWant THEN v.want ELSE v.told, !.toApp = q]
              /\ v.process # "up" => q = v.toApp
              /\ NoForeground(v.toApp) => OneForeground(q)
    BY <2>1, ForegroundAbilityShape
  <2>4. y = [x EXCEPT !.pending = "FOREGROUND", !.goal = "FOREGROUND",
                      !.timers = x.timers \cup {"foreground"}, !.state = "FOREGROUNDING",
                      !.isNewWant = FALSE, !.told = IF x.isNewWant THEN x.want ELSE x.told, !.toApp = q]
    BY <2>2, <2>3 DEF Record
  <2>5. y \in Record
    <3>1. [x EXCEPT !.pending = "FOREGROUND", !.goal = "FOREGROUND",
                    !.timers = x.timers \cup {"foreground"}, !.state = "FOREGROUNDING",
                    !.isNewWant = FALSE, !.told = IF x.isNewWant THEN x.want ELSE x.told,
                    !.toApp = q] \in Record
      BY DEF Record, States, Pendings, Order
    <3> QED
      BY <2>4, <3>1
  <2>6. (x.process # "up" => q = x.toApp) /\ OneForeground(q) /\ (x.foregrounding => x.process # "up")
    BY <1>3, <2>3 DEF Orders, Record
  <2>7. Sound(y)
    BY <1>3, <2>4, <2>6 DEF Sound, Record
  <2>8. Orders(y)
    BY <1>3, <2>4, <2>6, EmptyOrder DEF Orders, Sound, Record
  <2>9. PendingOK(y) /\ GoalOK(y)
    BY <2>4 DEF PendingOK, GoalOK, Resting, Record
  <2>10. WantOK(y)
    BY <1>3, <2>4 DEF WantOK, WantKept, Record
  <2>11. Guarded(x) => Guarded(y)
    BY <1>3, <2>4 DEF Guarded, Armed, Record
  <2> QED
    BY <2>4, <2>5, <2>7, <2>8, <2>9, <2>10, <2>11 DEF InUse, Record
<1>4. CASE x.pending = "INITIAL" /\ x.state = "BACKGROUND"
  <2>1. y = MoveToForeground(z)
    BY <1>4 DEF ForegroundRequest, ProcessForegroundAbility, Sound, Record
  <2>2. y = [x EXCEPT !.pending = "FOREGROUND", !.goal = "FOREGROUND",
                      !.timers = x.timers \cup {"foreground"}, !.state = "FOREGROUNDING",
                      !.foregrounding = TRUE]
    BY <1>1, <2>1, MoveToForegroundShape DEF Record
  <2>3. y \in Record
    <3>1. [x EXCEPT !.pending = "FOREGROUND", !.goal = "FOREGROUND",
                    !.timers = x.timers \cup {"foreground"}, !.state = "FOREGROUNDING",
                    !.foregrounding = TRUE] \in Record
      BY DEF Record, States, Pendings
    <3> QED
      BY <2>2, <3>1
  <2>4. Sound(y)
    BY <1>4, <2>2 DEF Sound, Record
  <2>5. Orders(y)
    BY <1>4, <2>2 DEF Orders, Record
  <2>6. PendingOK(y) /\ GoalOK(y)
    BY <2>2 DEF PendingOK, GoalOK, Resting, Record
  <2>7. WantOK(y)
    BY <1>4, <2>2 DEF WantOK, WantKept, Orders, Record
  <2>8. Guarded(x) => Guarded(y)
    BY <1>4, <2>2 DEF Guarded, Armed, Record
  <2> QED
    BY <2>2, <2>3, <2>4, <2>5, <2>6, <2>7, <2>8 DEF InUse, Record
<1> QED
  BY <1>2, <1>3, <1>4 DEF PendingOK, Resting

\* A record that stays where it is.
Keeps(x, y) ==
    /\ y \in Record /\ Sound(y)
    /\ Fresh(x) => Fresh(y)
    /\ InUse(x) => InUse(y)
    /\ Calm /\ Ending(x) => Ending(y)
    /\ Calm /\ Guarded(x) /\ (InUse(x) \/ Ending(x)) => Guarded(y)

\* StartUIAbility of a session that has a record.
LEMMA StartRecordKeeps ==
    ASSUME NEW x \in Record, Sound(x), InUse(x), NEW w \in AnyWant, w # NoWant => "newWant" \in inputs
    PROVE  LET y == StartRecord(x, w)
           IN  y \in Record /\ Sound(y) /\ InUse(y) /\ (Guarded(x) => Guarded(y))
<1> USE DEF InUse
<1>1. CASE w = NoWant /\ x.pending # "INITIAL"
  <2>1. StartRecord(x, w) = ForegroundRequest(x)
    BY <1>1 DEF StartRecord
  <2> QED
    BY <1>1, <2>1, ForegroundRequestKeeps DEF WantOK
<1>2. CASE w = NoWant /\ x.pending = "INITIAL"
  <2> DEFINE z == [x EXCEPT !.isNewWant = FALSE]
  <2>1. StartRecord(x, w) = ForegroundRequest(z)
    BY <1>2 DEF StartRecord
  <2>2. z \in Record
    BY DEF Record
  <2>3. /\ Sound(z) /\ Orders(z) /\ PendingOK(z) /\ ~z.closing /\ z.state # "TERMINATING"
        /\ Guarded(x) => Guarded(z)
    BY DEF Sound, Orders, PendingOK, Resting, Guarded, Armed, Record
  <2>4. Quiet => z.lastWant = NoWant /\ ~z.isNewWant /\ WantKept(z)
    BY <1>2 DEF WantOK, WantKept, PendingOK, Resting, Record
  <2> HIDE DEF z
  <2> QED
    BY <2>1, <2>2, <2>3, <2>4, ForegroundRequestKeeps
<1>3. CASE w # NoWant /\ x.pending # "INITIAL"
  <2> DEFINE z == [x EXCEPT !.asked = w, !.lastWant = w]
  <2>1. StartRecord(x, w) = ForegroundRequest(z)
    BY <1>3 DEF StartRecord
  <2>2. z \in Record
    BY DEF Record
  <2>3. /\ Sound(z) /\ Orders(z) /\ PendingOK(z) /\ ~z.closing /\ z.state # "TERMINATING"
        /\ Guarded(x) => Guarded(z)
    BY <1>3 DEF Sound, Orders, PendingOK, Resting, Guarded, Armed, Record
  <2>4. Quiet => z.pending # "INITIAL" /\ (~NoForeground(z.toApp) => ~z.isNewWant) /\ WantKept(z)
    BY <1>3 DEF WantOK, WantKept, Record
  <2> HIDE DEF z
  <2> QED
    BY <2>1, <2>2, <2>3, <2>4, ForegroundRequestKeeps
<1>4. CASE w # NoWant /\ x.pending = "INITIAL"
  <2> DEFINE z == [x EXCEPT !.asked = w, !.want = w, !.isNewWant = TRUE]
  <2>1. StartRecord(x, w) = ForegroundRequest(z)
    BY <1>4 DEF StartRecord
  <2>2. z \in Record
    BY DEF Record
  <2>3. /\ Sound(z) /\ Orders(z) /\ PendingOK(z) /\ ~z.closing /\ z.state # "TERMINATING"
        /\ Guarded(x) => Guarded(z)
    BY DEF Sound, Orders, PendingOK, Resting, Guarded, Armed, Record
  <2>4. Quiet => z.lastWant = NoWant /\ NoForeground(z.toApp) /\ WantKept(z)
    BY <1>4 DEF WantOK, WantKept, Orders, PendingOK, Resting, Record
  <2> HIDE DEF z
  <2> QED
    BY <2>1, <2>2, <2>3, <2>4, ForegroundRequestKeeps
<1> QED
  BY <1>1, <1>2, <1>3, <1>4

\* ChangeUIAbilityVisibilityBySCB sets isNewWant first.
LEMMA ShowKeeps ==
    ASSUME NEW x \in Record, Sound(x), InUse(x), NEW f \in BOOLEAN, ~Quiet
    PROVE  LET y == ForegroundRequest([x EXCEPT !.isNewWant = f])
           IN  y \in Record /\ Sound(y) /\ InUse(y) /\ (Guarded(x) => Guarded(y))
<1> DEFINE z == [x EXCEPT !.isNewWant = f]
<1>1. z \in Record
  BY DEF Record
<1>2. /\ Sound(z) /\ Orders(z) /\ PendingOK(z) /\ ~z.closing /\ z.state # "TERMINATING"
      /\ Guarded(x) => Guarded(z)
  BY DEF Sound, Orders, PendingOK, Resting, Guarded, Armed, Record, InUse
<1> HIDE DEF z
<1>3. LET y == ForegroundRequest(z)
      IN  y \in Record /\ Sound(y) /\ InUse(y) /\ (Guarded(x) => Guarded(y))
  BY <1>1, <1>2, ForegroundRequestKeeps
<1> QED
  BY <1>3 DEF z

\* A start that finds the record of a call under way is remembered.
LEMMA StartFresh ==
    ASSUME NEW x \in Record, Sound(x), Fresh(x), NEW w \in AnyWant, w # NoWant => "newWant" \in inputs
    PROVE  LET y == StartRecord([x EXCEPT !.pending = "FOREGROUND"], w)
           IN  y \in Record /\ Sound(y) /\ Fresh(y)
<1> DEFINE y == StartRecord([x EXCEPT !.pending = "FOREGROUND"], w)
<1>1. CASE w = NoWant
  <2>1. y = [x EXCEPT !.pending = "FOREGROUND", !.goal = "FOREGROUND"]
    BY <1>1 DEF StartRecord, ForegroundRequest, Record
  <2>2. [x EXCEPT !.pending = "FOREGROUND", !.goal = "FOREGROUND"] \in Record
    BY DEF Record, Pendings
  <2> QED
    BY <2>1, <2>2 DEF Sound, Fresh, Record
<1>2. CASE w # NoWant
  <2>1. y = [x EXCEPT !.pending = "FOREGROUND", !.goal = "FOREGROUND", !.asked = w, !.lastWant = w]
    BY <1>2 DEF StartRecord, ForegroundRequest, Record
  <2>2. [x EXCEPT !.pending = "FOREGROUND", !.goal = "FOREGROUND", !.asked = w, !.lastWant = w] \in Record
    BY DEF Record, Pendings
  <2>3. Sound([x EXCEPT !.pending = "FOREGROUND", !.goal = "FOREGROUND", !.asked = w, !.lastWant = w])
    BY <1>2 DEF Sound, Record
  <2>4. Fresh([x EXCEPT !.pending = "FOREGROUND", !.goal = "FOREGROUND", !.asked = w, !.lastWant = w])
    BY DEF Fresh, Record
  <2> QED
    BY <2>1, <2>2, <2>3, <2>4
<1> QED
  BY <1>1, <1>2

\* The record a start makes.
LEMMA NewStart ==
    ASSUME NEW w \in AnyWant
    PROVE  LET y == LoadAbility([NewRecord(w, "no", "FOREGROUND") EXCEPT !.pending = "FOREGROUND"])
           IN  y \in Record /\ Sound(y) /\ InUse(y) /\ Guarded(y)
<1> DEFINE n == NewRecord(w, "no", "FOREGROUND")
           z == [n EXCEPT !.pending = "FOREGROUND", !.timers = n.timers \cup {"load"},
                          !.process = "loading", !.told = n.want]
<1>1. n \in Record
  BY DEF NewRecord, Record, States, Pendings, AnyWant
<1>2. /\ n.state = "INITIAL" /\ ~n.closing /\ ~n.ready /\ n.want = w /\ n.lastWant = NoWant
      /\ ~n.isNewWant /\ n.byCall = "no" /\ n.tasks = {} /\ ~n.attaching /\ ~n.foregrounding
      /\ n.toApp = <<>> /\ n.asked = w /\ n.goal = "FOREGROUND"
  BY DEF NewRecord
<1> HIDE DEF n
<1>3. LoadAbility([n EXCEPT !.pending = "FOREGROUND"]) = z
  BY <1>1 DEF LoadAbility, Record
<1>4. z \in Record
  BY <1>1 DEF Record, States, Pendings, AnyWant
<1>5. Sound(z) /\ Guarded(z)
  BY <1>1, <1>2 DEF Sound, Guarded, Armed, Record
<1>6. Orders(z) /\ PendingOK(z) /\ GoalOK(z)
  BY <1>1, <1>2, EmptyOrder DEF Orders, PendingOK, Resting, GoalOK, Record
<1>7. WantOK(z)
  BY <1>1, <1>2, EmptyOrder DEF WantOK, WantKept, Record
<1>8. ~z.closing /\ z.state # "TERMINATING"
  BY <1>1, <1>2 DEF Record
<1> QED
  BY <1>3, <1>4, <1>5, <1>6, <1>7, <1>8 DEF InUse, n

\* The record a call makes, and what becomes of it when it gets its session.
LEMMA NewCall ==
    ASSUME NEW to \in {"FOREGROUND", "BACKGROUND"}, "byCall" \in inputs
    PROVE  LET y == NewRecord(NoWant, to, to)
           IN  y \in Record /\ Sound(y) /\ Fresh(y)
<1>1. NewRecord(NoWant, to, to) \in Record
  BY DEF NewRecord, Record, States, Pendings, AnyWant
<1> QED
  BY <1>1 DEF NewRecord, Sound, Fresh

LEMMA LoadFresh ==
    ASSUME NEW x \in Record, Sound(x), Fresh(x), "byCall" \in inputs
    PROVE  LET y == LoadAbility([x EXCEPT !.pending = x.byCall])
           IN  y \in Record /\ Sound(y) /\ InUse(y) /\ Guarded(y)
<1> DEFINE y == LoadAbility([x EXCEPT !.pending = x.byCall])
           z == [x EXCEPT !.pending = x.byCall, !.timers = x.timers \cup {"load"},
                          !.process = "loading", !.told = x.want]
<1>1. y = z
  BY DEF LoadAbility, Record
<1>2. z \in Record /\ z.pending # "INITIAL"
  BY DEF Record, Pendings, Fresh
<1>3. Sound(z) /\ Guarded(z)
  BY DEF Sound, Guarded, Armed, Fresh, Record
<1>4. Orders(z)
  BY EmptyOrder DEF Orders, Sound, Fresh, Record
<1>5. InUse(z)
  BY <1>2, <1>4 DEF InUse, PendingOK, Resting, GoalOK, WantOK, Quiet, Fresh, Record
<1> QED
  BY <1>1, <1>2, <1>3, <1>5

\* MinimizeUIAbility moves a record that is in front and is remembered for one
\* that is under way.
LEMMA MinimizeKeeps ==
    ASSUME NEW x \in Record, Sound(x)
    PROVE  LET z == [x EXCEPT !.asked = NoWant, !.goal = "BACKGROUND"]
               y == CASE z.pending # "INITIAL" -> [z EXCEPT !.pending = "BACKGROUND"]
                      [] z.pending = "INITIAL" /\ z.state = "FOREGROUND"
                                               -> MoveToBackground([z EXCEPT !.pending = "BACKGROUND"])
                      [] OTHER                 -> z
           IN  Keeps(x, y)
<1> DEFINE z == [x EXCEPT !.asked = NoWant, !.goal = "BACKGROUND"]
           v == [x EXCEPT !.asked = NoWant, !.goal = "BACKGROUND", !.pending = "BACKGROUND"]
           y == CASE z.pending # "INITIAL" -> [z EXCEPT !.pending = "BACKGROUND"]
                  [] z.pending = "INITIAL" /\ z.state = "FOREGROUND"
                                           -> MoveToBackground([z EXCEPT !.pending = "BACKGROUND"])
                  [] OTHER                 -> z
<1> SUFFICES Keeps(x, y)
  OBVIOUS
<1>0. NoWant \in AnyWant
  BY DEF AnyWant
<1>a. z \in Record /\ z.pending = x.pending /\ z.state = x.state
  BY <1>0 DEF Record
<1>b. v \in Record
  BY <1>0 DEF Record, Pendings
<1>c. [z EXCEPT !.pending = "BACKGROUND"] = v
  BY DEF Record
<1>1. /\ z \in Record /\ v \in Record /\ z.pending = x.pending /\ z.state = x.state
      /\ [z EXCEPT !.pending = "BACKGROUND"] = v
  BY <1>a, <1>b, <1>c
<1>2. CASE x.pending # "INITIAL"
  <2>1. y = v
    BY <1>1, <1>2
  <2>2. /\ Sound(v) /\ (Fresh(x) => Fresh(v))
        /\ Ending(x) => Ending(v)
        /\ Guarded(x) => Guarded(v)
    BY DEF Sound, Fresh, Ending, Orders, Guarded, Armed, Record
  <2>3. InUse(x) => /\ ~v.closing /\ v.state # "TERMINATING" /\ Orders(v)
                    /\ PendingOK(v) /\ GoalOK(v)
    BY <1>2 DEF InUse, Orders, PendingOK, GoalOK, Resting, Record
  <2>4. InUse(x) => WantOK(v)
    BY <1>2 DEF InUse, WantOK, WantKept, PendingOK, Record
  <2> HIDE DEF v, y
  <2> QED
    BY <1>1, <2>1, <2>2, <2>3, <2>4 DEF Keeps, InUse
<1>3. CASE x.pending = "INITIAL" /\ x.state = "FOREGROUND"
  <2>1. y = MoveToBackground(v)
    BY <1>1, <1>3
  <2>2. PICK q \in Seq(Order) :
              /\ MoveToBackground(v) = [v EXCEPT !.isNewWant = FALSE, !.timers = v.timers \cup {"background"},
                                                 !.state = "BACKGROUNDING", !.toApp = q]
              /\ v.process # "up" => q = v.toApp
              /\ NoForeground(v.toApp) => NoForeground(q)
              /\ OneForeground(v.toApp) => OneForeground(q)
    BY <1>1, MoveToBackgroundShape
  <2> DEFINE u == [x EXCEPT !.asked = NoWant, !.goal = "BACKGROUND", !.pending = "BACKGROUND",
                            !.isNewWant = FALSE, !.timers = x.timers \cup {"background"},
                            !.state = "BACKGROUNDING", !.toApp = q]
  <2>3. y = u
    BY <2>1, <2>2 DEF Record
  <2>4. u \in Record
    BY <1>0 DEF Record, States, Pendings, Order
  <2>5. Sound(u) /\ ~Fresh(x) /\ (Guarded(x) => Guarded(u)) /\ ~Ending(x)
    BY <1>3, <2>2 DEF Sound, Fresh, Guarded, Armed, Ending, Record
  <2>6. InUse(x) => ~u.closing /\ u.state # "TERMINATING" /\ PendingOK(u) /\ GoalOK(u) /\ Orders(u)
    BY <1>3, <2>2 DEF InUse, PendingOK, GoalOK, Resting, Orders, Record
  <2>7. InUse(x) => WantOK(u)
    BY <1>3 DEF InUse, WantOK, WantKept, Record
  <2> HIDE DEF u, y
  <2> QED
    BY <2>3, <2>4, <2>5, <2>6, <2>7 DEF Keeps, InUse
<1>4. CASE x.pending = "INITIAL" /\ x.state # "FOREGROUND"
  <2>1. y = z
    BY <1>1, <1>4
  <2>2. /\ Sound(z) /\ (Fresh(x) => Fresh(z))
        /\ Ending(x) => Ending(z)
        /\ Guarded(x) => Guarded(z)
    BY DEF Sound, Fresh, Ending, Orders, Guarded, Armed, Record
  <2>3. InUse(x) => /\ ~z.closing /\ z.state # "TERMINATING" /\ Orders(z)
                    /\ PendingOK(z) /\ GoalOK(z)
    BY <1>4 DEF InUse, Orders, PendingOK, GoalOK, Resting, Record
  <2>4. InUse(x) => WantOK(z)
    BY <1>4 DEF InUse, WantOK, WantKept, Record
  <2> HIDE DEF z, y
  <2> QED
    BY <1>1, <2>1, <2>2, <2>3, <2>4 DEF Keeps, InUse
<1> QED
  BY <1>2, <1>3, <1>4

\* BeginAttach notes that a thread attaches the process.
LEMMA BeginAttachKeeps ==
    ASSUME NEW x \in Record, Sound(x), x.process = "loading", ~x.ready
    PROVE  Keeps(x, [x EXCEPT !.attaching = TRUE])
<1> DEFINE y == [x EXCEPT !.attaching = TRUE]
<1>1. y \in Record
  BY DEF Record
<1>2. Sound(y) /\ ~Fresh(x) /\ (Ending(x) => Ending(y)) /\ (Guarded(x) => Guarded(y))
  BY DEF Sound, Fresh, Ending, Orders, Guarded, Armed, Record
<1>3. InUse(x) => ~y.closing /\ y.state # "TERMINATING" /\ PendingOK(y) /\ GoalOK(y) /\ Orders(y)
  BY DEF InUse, PendingOK, GoalOK, Resting, Orders, Record
<1>4. InUse(x) => WantOK(y)
  BY DEF InUse, WantOK, WantKept, Record
<1> QED
  BY <1>1, <1>2, <1>3, <1>4 DEF Keeps, InUse

\* AttachAbilityThread takes a record to the foreground, or to the background where
\* it was called.
LEMMA AttachKeeps ==
    ASSUME NEW x \in Record, Sound(x), x.attaching
    PROVE  LET z == [x EXCEPT !.attaching = FALSE, !.timers = @ \ {"load"}, !.ready = TRUE,
                              !.process = IF @ = "dead" THEN @ ELSE "up", !.watched = TRUE]
           IN  Keeps(x, IF z.byCall = "BACKGROUND" THEN MoveToBackground(z) ELSE MoveToForeground(z))
<1> DEFINE p == IF x.process = "dead" THEN "dead" ELSE "up"
           z == [x EXCEPT !.attaching = FALSE, !.timers = x.timers \ {"load"}, !.ready = TRUE,
                          !.process = p, !.watched = TRUE]
           y == IF z.byCall = "BACKGROUND" THEN MoveToBackground(z) ELSE MoveToForeground(z)
<1> SUFFICES Keeps(x, y)
  BY DEF Record
<1>0. p \in {"up", "dead"} /\ (p = "dead" <=> x.process = "dead")
  OBVIOUS
<1> HIDE DEF p
<1>1. z \in Record
  BY <1>0 DEF Record
<1>2. (Calm /\ Ending(x) => FALSE) /\ ~Fresh(x)
  BY DEF Calm, Ending, Fresh, Sound
<1>3. /\ InUse(x) => x.state = "INITIAL" /\ x.pending # "INITIAL" /\ NoForeground(x.toApp)
      /\ ~x.foregrounding
  BY DEF InUse, PendingOK, Resting, Orders, Sound, Record, States
<1>4. p # "up" => x.process = "dead" /\ x.toApp = <<>>
  BY <1>0 DEF Sound
<1>5. CASE x.byCall = "BACKGROUND"
  <2>1. PICK q \in Seq(Order) :
              /\ MoveToBackground(z) = [z EXCEPT !.isNewWant = FALSE, !.timers = z.timers \cup {"background"},
                                                 !.state = "BACKGROUNDING", !.toApp = q]
              /\ z.process # "up" => q = z.toApp
              /\ NoForeground(z.toApp) => NoForeground(q)
              /\ OneForeground(z.toApp) => OneForeground(q)
    BY <1>1, MoveToBackgroundShape
  <2> DEFINE u == [x EXCEPT !.attaching = FALSE, !.timers = (x.timers \ {"load"}) \cup {"background"},
                            !.ready = TRUE, !.process = p, !.watched = TRUE,
                            !.isNewWant = FALSE, !.state = "BACKGROUNDING", !.toApp = q]
  <2>2. y = u
    BY <1>5, <2>1 DEF Record
  <2>3. u \in Record
    BY <1>0 DEF Record, States, Order
  <2>4. Sound(u)
    BY <1>0, <1>3, <1>4, <2>1 DEF Sound, Record
  <2>5. Calm /\ Guarded(x) => Guarded(u)
    BY <1>0 DEF Calm, Guarded, Armed, Sound, Record
  <2>6. InUse(x) => ~u.closing /\ u.state # "TERMINATING" /\ PendingOK(u) /\ GoalOK(u)
    BY <1>3 DEF InUse, PendingOK, GoalOK, Resting, Record
  <2>7. InUse(x) => Orders(u)
    BY <1>3, <2>1 DEF InUse, Orders, Record
  <2>8. WantOK(u)
    BY <1>5 DEF Sound, WantOK, Quiet
  <2> HIDE DEF u, y
  <2> QED
    BY <1>2, <2>2, <2>3, <2>4, <2>5, <2>6, <2>7, <2>8 DEF Keeps, InUse
<1>6. CASE x.byCall # "BACKGROUND"
  <2> DEFINE u == [x EXCEPT !.attaching = FALSE, !.timers = (x.timers \ {"load"}) \cup {"foreground"},
                            !.ready = TRUE, !.process = p, !.watched = TRUE,
                            !.state = "FOREGROUNDING", !.foregrounding = TRUE]
  <2>1. y = u
    <3>1. y = MoveToForeground(z)
      BY <1>6 DEF Record
    <3>2. MoveToForeground(z) = [z EXCEPT !.timers = z.timers \cup {"foreground"},
                                          !.state = "FOREGROUNDING", !.foregrounding = TRUE]
      BY <1>1, MoveToForegroundShape
    <3> DEFINE t == (x.timers \ {"load"}) \cup {"foreground"}
    <3>3. z.timers \cup {"foreground"} = t
      BY DEF Record
    <3> HIDE DEF t
    <3>4. [z EXCEPT !.timers = t, !.state = "FOREGROUNDING", !.foregrounding = TRUE]
            = [x EXCEPT !.attaching = FALSE, !.timers = t, !.ready = TRUE, !.process = p, !.watched = TRUE,
                        !.state = "FOREGROUNDING", !.foregrounding = TRUE]
      BY DEF Record
    <3> QED
      BY <3>1, <3>2, <3>3, <3>4 DEF t
  <2>2. u \in Record
    BY <1>0 DEF Record, States
  <2>3. Sound(u)
    BY <1>0, <1>4 DEF Sound, Record
  <2>4. Calm /\ Guarded(x) => Guarded(u)
    BY <1>0 DEF Calm, Guarded, Armed, Sound, Record
  <2>5. InUse(x) => ~u.closing /\ u.state # "TERMINATING" /\ PendingOK(u) /\ GoalOK(u)
    BY <1>3 DEF InUse, PendingOK, GoalOK, Resting, Record
  <2>6. InUse(x) => Orders(u)
    BY <1>3 DEF InUse, Orders, Record
  <2>7. InUse(x) => WantOK(u)
    BY <1>3 DEF InUse, WantOK, WantKept, Record
  <2> HIDE DEF u, y
  <2> QED
    BY <1>2, <2>1, <2>2, <2>3, <2>4, <2>5, <2>6, <2>7 DEF Keeps, InUse
<1> QED
  BY <1>5, <1>6

\* An attachment that failed leaves the record as it was, but for its load timer.
LEMMA AttachFailsKeeps ==
    ASSUME NEW x \in Record, Sound(x), x.attaching, "attachFails" \in inputs
    PROVE  Keeps(x, [x EXCEPT !.attaching = FALSE, !.timers = @ \ {"load"}, !.ready = TRUE,
                              !.process = IF @ = "dead" THEN @ ELSE "up", !.watched = TRUE])
<1> DEFINE p == IF x.process = "dead" THEN "dead" ELSE "up"
           y == [x EXCEPT !.attaching = FALSE, !.timers = x.timers \ {"load"}, !.ready = TRUE,
                          !.process = p, !.watched = TRUE]
<1> SUFFICES Keeps(x, y)
  BY DEF Record
<1>0. p \in {"up", "dead"} /\ (p = "dead" <=> x.process = "dead")
  OBVIOUS
<1> HIDE DEF p
<1>1. y \in Record
  BY <1>0 DEF Record
<1>2. (Calm /\ Ending(x) => FALSE) /\ ~Fresh(x)
  BY DEF Calm, Ending, Fresh, Sound
<1>3. p # "up" => x.process = "dead" /\ x.toApp = <<>>
  BY <1>0 DEF Sound
<1>4. InUse(x) => x.state = "INITIAL" /\ ~x.foregrounding
  BY DEF InUse, PendingOK, Resting, Sound, Record, States
<1>5. Sound(y)
  BY <1>0, <1>3 DEF Sound, Record
<1>6. Calm /\ Guarded(x) /\ InUse(x) => Guarded(y)
  BY <1>0, <1>4 DEF Calm, Guarded, Armed, Sound, Record
<1>7. InUse(x) => ~y.closing /\ y.state # "TERMINATING" /\ PendingOK(y) /\ GoalOK(y) /\ Orders(y)
  BY <1>4 DEF InUse, PendingOK, GoalOK, Resting, Orders, Record
<1>8. InUse(x) => WantOK(y)
  BY <1>4 DEF InUse, WantOK, WantKept, Record
<1> HIDE DEF y
<1> QED
  BY <1>1, <1>2, <1>5, <1>6, <1>7, <1>8 DEF Keeps, InUse


\* The ability has answered; the answer is for no transition under way.
LEMMA RestKeeps ==
    ASSUME NEW x \in Record, Sound(x), x.process = "up", x.toApp # <<>>
    PROVE  Keeps(x, [x EXCEPT !.toApp = Tail(x.toApp)])
<1> DEFINE q == Tail(x.toApp)
           y == [x EXCEPT !.toApp = q]
<1>1. x.toApp \in Seq(Order)
  BY DEF Record, Order
<1>2. /\ q \in Seq(Order) /\ (NoForeground(x.toApp) => NoForeground(q))
      /\ (OneForeground(x.toApp) => OneForeground(q))
  BY <1>1, TailOrder
<1> HIDE DEF q
<1>3. y \in Record
  BY <1>2 DEF Record, Order
<1>4. Sound(y) /\ ~Fresh(x) /\ (Guarded(x) => Guarded(y))
  BY DEF Sound, Fresh, Guarded, Armed, Record
<1>5. Orders(x) => Orders(y)
  BY <1>2 DEF Orders, Record
<1>6. Ending(x) => Ending(y)
  BY <1>5 DEF Ending, Record
<1>7. InUse(x) => ~y.closing /\ y.state # "TERMINATING" /\ PendingOK(y) /\ GoalOK(y)
  BY DEF InUse, PendingOK, GoalOK, Resting, Record
<1>8. InUse(x) => WantOK(y)
  BY <1>2 DEF InUse, WantOK, WantKept, Record
<1>9. Keeps(x, y)
  BY <1>3, <1>4, <1>5, <1>6, <1>7, <1>8 DEF Keeps, InUse
<1> QED
  BY <1>9 DEF q

LEMMA UpdateWantShape ==
    ASSUME NEW x \in Record
    PROVE  LET y == UpdateWantByLastWant(x)
           IN  /\ x.update /\ x.lastWant # NoWant =>
                     y = [x EXCEPT !.update = FALSE, !.want = x.lastWant, !.lastWant = NoWant, !.isNewWant = TRUE]
               /\ ~(x.update /\ x.lastWant # NoWant) => y = [x EXCEPT !.update = FALSE]
               /\ y \in Record
<1> DEFINE y == UpdateWantByLastWant(x)
<1>1. NoWant \in AnyWant
  BY DEF AnyWant
<1>2. CASE x.update /\ x.lastWant # NoWant
  <2>1. y = [x EXCEPT !.update = FALSE, !.want = x.lastWant, !.lastWant = NoWant, !.isNewWant = TRUE]
    BY <1>2 DEF UpdateWantByLastWant
  <2>2. [x EXCEPT !.update = FALSE, !.want = x.lastWant, !.lastWant = NoWant, !.isNewWant = TRUE] \in Record
    BY <1>1 DEF Record
  <2> QED
    BY <1>2, <2>1, <2>2
<1>3. CASE ~(x.update /\ x.lastWant # NoWant)
  <2>1. y = [x EXCEPT !.update = FALSE]
    BY <1>3 DEF UpdateWantByLastWant
  <2>2. [x EXCEPT !.update = FALSE] \in Record
    BY DEF Record
  <2> QED
    BY <1>3, <2>1, <2>2
<1> QED
  BY <1>2, <1>3

\* The application manager has answered: the ability is told to come forward.
LEMMA RequestDoneKeeps ==
    ASSUME NEW x \in Record, Sound(x), x.foregrounding, x.process = "up"
    PROVE  Keeps(x, ForegroundAbility(UpdateWantByLastWant([x EXCEPT !.foregrounding = FALSE])))
<1> DEFINE z == [x EXCEPT !.foregrounding = FALSE]
           v == UpdateWantByLastWant(z)
           y == ForegroundAbility(v)
<1>1. z \in Record
  BY DEF Record
<1>a. /\ z.state = x.state /\ z.ready = x.ready /\ z.attaching = x.attaching /\ z.process = x.process
      /\ z.tasks = x.tasks /\ z.byCall = x.byCall /\ z.closing = x.closing /\ z.pending = x.pending
      /\ z.goal = x.goal /\ z.timers = x.timers /\ z.killed = x.killed /\ z.watched = x.watched
      /\ z.toApp = x.toApp /\ z.asked = x.asked /\ z.told = x.told /\ z.foregrounding = FALSE
      /\ z.want = x.want /\ z.lastWant = x.lastWant /\ z.isNewWant = x.isNewWant
  BY DEF Record
<1> HIDE DEF z
<1>2. v \in Record
  BY <1>1, UpdateWantShape
<1>3. /\ v.state = x.state /\ v.ready = x.ready /\ v.attaching = x.attaching /\ v.process = x.process
      /\ v.tasks = x.tasks /\ v.byCall = x.byCall /\ v.closing = x.closing /\ v.pending = x.pending
      /\ v.goal = x.goal /\ v.timers = x.timers /\ v.killed = x.killed /\ v.watched = x.watched
      /\ v.toApp = x.toApp /\ v.asked = x.asked /\ v.told = x.told /\ v.foregrounding = FALSE
  <2>1. CASE z.update /\ z.lastWant # NoWant
    <3>1. v = [z EXCEPT !.update = FALSE, !.want = z.lastWant, !.lastWant = NoWant, !.isNewWant = TRUE]
      BY <1>1, <2>1, UpdateWantShape
    <3> QED
      BY <1>1, <1>a, <2>1, <3>1 DEF Record
  <2>2. CASE ~(z.update /\ z.lastWant # NoWant)
    <3>1. v = [z EXCEPT !.update = FALSE]
      BY <1>1, <2>2, UpdateWantShape
    <3> QED
      BY <1>1, <1>a, <3>1 DEF Record
  <2> QED
    BY <2>1, <2>2
<1>4. \/ v.want = x.lastWant /\ x.lastWant # NoWant /\ v.lastWant = NoWant /\ v.isNewWant
      \/ v.want = x.want /\ v.lastWant = x.lastWant /\ v.isNewWant = x.isNewWant
  <2>1. CASE z.update /\ z.lastWant # NoWant
    <3>1. v = [z EXCEPT !.update = FALSE, !.want = z.lastWant, !.lastWant = NoWant, !.isNewWant = TRUE]
      BY <1>1, <2>1, UpdateWantShape
    <3> QED
      BY <1>1, <1>a, <2>1, <3>1 DEF Record
  <2>2. CASE ~(z.update /\ z.lastWant # NoWant)
    <3>1. v = [z EXCEPT !.update = FALSE]
      BY <1>1, <2>2, UpdateWantShape
    <3> QED
      BY <1>1, <1>a, <3>1 DEF Record
  <2> QED
    BY <2>1, <2>2
<1> HIDE DEF v
<1>5. PICK q \in Seq(Order) :
          /\ y = [v EXCEPT !.state = "FOREGROUNDING", !.isNewWant = FALSE,
                           !.told = IF v.isNewWant THEN v.want ELSE v.told, !.toApp = q]
          /\ v.process # "up" => q = v.toApp
          /\ NoForeground(v.toApp) => OneForeground(q)
  BY <1>2, ForegroundAbilityShape
<1> DEFINE u == [v EXCEPT !.state = "FOREGROUNDING", !.isNewWant = FALSE,
                          !.told = IF v.isNewWant THEN v.want ELSE v.told, !.toApp = q]
<1>6. u \in Record
  <2> DEFINE t == IF v.isNewWant THEN v.want ELSE v.told
  <2>1. t \in AnyWant
    BY <1>2 DEF Record
  <2> HIDE DEF t
  <2>2. [v EXCEPT !.state = "FOREGROUNDING", !.isNewWant = FALSE, !.told = t, !.toApp = q] \in Record
    BY <1>2, <2>1 DEF Record, States, Order
  <2> QED
    BY <2>2 DEF t
<1>7. Sound(u) /\ ~Fresh(x)
  BY <1>2, <1>3, <1>4 DEF Sound, Fresh, Record
<1>8. Orders(x) => Orders(u)
  BY <1>2, <1>3, <1>5 DEF Orders, Record
<1>9. Ending(x) => Ending(u)
  BY <1>2, <1>3, <1>8 DEF Ending, Orders, Record
<1>10. Guarded(x) /\ (InUse(x) \/ Ending(x)) => Guarded(u)
  BY <1>2, <1>3 DEF InUse, Ending, Orders, Guarded, Armed, Record
<1>11. InUse(x) => ~u.closing /\ u.state # "TERMINATING" /\ PendingOK(u) /\ GoalOK(u)
  BY <1>2, <1>3 DEF InUse, Orders, PendingOK, GoalOK, Resting, Record
<1>12. InUse(x) => WantOK(u)
  <2> SUFFICES ASSUME InUse(x), Quiet PROVE WantOK(u)
    BY DEF WantOK
  <2>1. x.state = "FOREGROUNDING" /\ x.pending # "INITIAL"
    BY DEF InUse, Orders, PendingOK, Resting
  <2>2. x.pending = "BACKGROUND" => x.asked = NoWant
    BY DEF InUse, WantOK
  <2>3. WantKept(u)
    <3>1. /\ u.asked = x.asked /\ u.lastWant = v.lastWant /\ u.isNewWant = FALSE
          /\ u.told = IF v.isNewWant THEN v.want ELSE x.told
      BY <1>2, <1>3 DEF Record
    <3>2. WantKept(x)
      BY DEF InUse, WantOK
    <3> QED
      BY <1>4, <3>1, <3>2 DEF WantKept
  <2> QED
    BY <1>2, <1>3, <2>1, <2>2, <2>3 DEF WantOK, Record
<1> HIDE DEF u
<1>13. Keeps(x, u)
  BY <1>6, <1>7, <1>8, <1>9, <1>10, <1>11, <1>12 DEF Keeps, InUse
<1>14. y = u
  BY <1>5 DEF u
<1> QED
  BY <1>13, <1>14 DEF v, z

\* What the answer to the order to come forward finds: it is the only such order.
LEMMA ForegroundAnswer ==
    ASSUME NEW x \in Record, x.toApp # <<>>, Head(x.toApp) = "foreground"
    PROVE  /\ Tail(x.toApp) \in Seq(Order)
           /\ Orders(x) => /\ ~x.foregrounding /\ NoForeground(Tail(x.toApp)) /\ OneForeground(Tail(x.toApp))
                           /\ ~NoForeground(x.toApp)
<1>1. x.toApp \in Seq(Order)
  BY DEF Record, Order
<1> QED
  BY <1>1, TailOrder DEF Orders

\* The ability has come forward: it goes on with a want or a request that came
\* meanwhile, and is at rest only if there was none.
LEMMA ForegroundDoneKeeps ==
    ASSUME NEW x \in Record, Sound(x), x.process = "up", x.state = "FOREGROUNDING",
           x.toApp # <<>>, Head(x.toApp) = "foreground"
    PROVE  Keeps(x, CompleteForegroundSuccess(
                       RemoveForegroundTimeoutTask([x EXCEPT !.toApp = Tail(x.toApp)])))
<1> DEFINE q == Tail(x.toApp)
           t == x.timers \ {"foreground"}
           z == [x EXCEPT !.toApp = q, !.timers = t]
           v == [x EXCEPT !.toApp = q, !.timers = t, !.state = "FOREGROUND", !.update = TRUE]
           y == CompleteForegroundSuccess(z)
<1>1. /\ q \in Seq(Order)
      /\ Orders(x) => ~x.foregrounding /\ NoForeground(q) /\ OneForeground(q) /\ ~NoForeground(x.toApp)
  BY ForegroundAnswer
<1>2. z = RemoveForegroundTimeoutTask([x EXCEPT !.toApp = Tail(x.toApp)])
  BY DEF RemoveForegroundTimeoutTask, Record
<1> SUFFICES Keeps(x, y)
  BY <1>2
<1>3. t \subseteq x.timers /\ NoWant \in AnyWant
  BY DEF AnyWant
<1> HIDE DEF q, t
<1>4. /\ z.lastWant = x.lastWant /\ z.pending = x.pending
      /\ v = [z EXCEPT !.state = "FOREGROUND", !.update = TRUE]
  BY DEF Record
<1>5. v \in Record
  BY <1>1, <1>3 DEF Record, States, Order
<1>6. /\ v.update = TRUE /\ v.lastWant = x.lastWant
  BY DEF Record
<1>7. /\ InUse(x) => x.pending # "INITIAL"
      /\ Ending(x) => x.pending = "BACKGROUND"
      /\ ~Fresh(x)
  BY DEF InUse, PendingOK, Resting, Ending, Fresh
<1>8. CASE x.lastWant # NoWant
  <2> DEFINE o == [x EXCEPT !.toApp = q, !.timers = t, !.state = "FOREGROUND", !.update = FALSE,
                            !.want = x.lastWant, !.lastWant = NoWant, !.isNewWant = TRUE]
  <2>1. UpdateWantByLastWant(v) = o
    <3>1. UpdateWantByLastWant(v) = [v EXCEPT !.update = FALSE, !.want = x.lastWant, !.lastWant = NoWant,
                                              !.isNewWant = TRUE]
      BY <1>5, <1>6, <1>8, UpdateWantShape
    <3> QED
      BY <3>1 DEF Record
  <2>2. o \in Record
    BY <1>1, <1>3 DEF Record, States, Order
  <2>3. y = ForegroundAbility(o)
    BY <1>4, <1>8, <2>1 DEF CompleteForegroundSuccess
  <2>4. PICK s \in Seq(Order) :
          /\ ForegroundAbility(o) = [o EXCEPT !.state = "FOREGROUNDING", !.isNewWant = FALSE,
                           !.told = IF o.isNewWant THEN o.want ELSE o.told, !.toApp = s]
          /\ o.process # "up" => s = o.toApp
          /\ NoForeground(o.toApp) => OneForeground(s)
    BY <2>2, ForegroundAbilityShape
  <2> DEFINE u == [x EXCEPT !.toApp = s, !.timers = t, !.state = "FOREGROUNDING", !.update = FALSE,
                            !.want = x.lastWant, !.lastWant = NoWant, !.isNewWant = FALSE,
                            !.told = x.lastWant]
  <2>5. y = u
    <3>1. (IF o.isNewWant THEN o.want ELSE o.told) = x.lastWant
      BY DEF Record
    <3>2. y = [o EXCEPT !.state = "FOREGROUNDING", !.isNewWant = FALSE, !.told = x.lastWant, !.toApp = s]
      BY <2>3, <2>4, <3>1
    <3> QED
      BY <3>2 DEF Record
  <2>6. NoForeground(q) => OneForeground(s)
    BY <2>4 DEF Record
  <2>7. u \in Record
    BY <1>3 DEF Record, States, Order
  <2>8. Sound(u) /\ ~Calm
    BY <1>8 DEF Sound, Calm, Record
  <2>9. InUse(x) => ~u.closing /\ u.state # "TERMINATING" /\ PendingOK(u) /\ GoalOK(u)
    BY <1>7 DEF InUse, PendingOK, GoalOK, Resting, Record
  <2>10. InUse(x) => Orders(u)
    BY <1>1, <2>6 DEF InUse, Orders, Record
  <2>11. InUse(x) => WantOK(u)
    BY <1>7, <1>8 DEF InUse, WantOK, WantKept, Record
  <2> HIDE DEF u, y
  <2> QED
    BY <1>7, <2>5, <2>7, <2>8, <2>9, <2>10, <2>11 DEF Keeps, InUse
<1>9. CASE x.lastWant = NoWant
  <2> DEFINE o == [x EXCEPT !.toApp = q, !.timers = t, !.state = "FOREGROUND", !.update = FALSE]
  <2>1. UpdateWantByLastWant(v) = o
    <3>1. UpdateWantByLastWant(v) = [v EXCEPT !.update = FALSE]
      BY <1>5, <1>6, <1>9, UpdateWantShape
    <3> QED
      BY <3>1 DEF Record
  <2>2. o \in Record
    BY <1>1, <1>3 DEF Record, States, Order
  <2>3. CASE x.pending = "BACKGROUND"
    <3>1. y = MoveToBackground(o)
      BY <1>4, <1>9, <2>1, <2>3 DEF CompleteForegroundSuccess
    <3>2. PICK s \in Seq(Order) :
              /\ MoveToBackground(o) = [o EXCEPT !.isNewWant = FALSE, !.timers = o.timers \cup {"background"},
                                                 !.state = "BACKGROUNDING", !.toApp = s]
              /\ o.process # "up" => s = o.toApp
              /\ NoForeground(o.toApp) => NoForeground(s)
              /\ OneForeground(o.toApp) => OneForeground(s)
      BY <2>2, MoveToBackgroundShape
    <3> DEFINE u == [x EXCEPT !.toApp = s, !.timers = t \cup {"background"}, !.state = "BACKGROUNDING",
                              !.update = FALSE, !.isNewWant = FALSE]
    <3>3. y = u
      BY <3>1, <3>2 DEF Record
    <3>4. /\ NoForeground(q) => NoForeground(s)
          /\ OneForeground(q) => OneForeground(s)
      BY <3>2 DEF Record
    <3>5. u \in Record
      BY <1>3 DEF Record, States, Order
    <3>6. Sound(u) /\ (Guarded(x) => Guarded(u))
      BY DEF Sound, Guarded, Armed, Record
    <3>7. Orders(x) => Orders(u)
      BY <1>1, <3>4 DEF Orders, Record
    <3>8. Ending(x) => Ending(u)
      BY <1>7, <3>7 DEF Ending, Record
    <3>9. InUse(x) => ~u.closing /\ u.state # "TERMINATING" /\ PendingOK(u) /\ GoalOK(u)
      BY <1>7 DEF InUse, PendingOK, GoalOK, Resting, Record
    <3>10. InUse(x) => WantOK(u)
      BY <2>3 DEF InUse, WantOK, WantKept, Record
    <3> HIDE DEF u, y
    <3> QED
      BY <1>7, <3>3, <3>5, <3>6, <3>7, <3>8, <3>9, <3>10 DEF Keeps, InUse
  <2>4. CASE x.pending # "BACKGROUND"
    <3> DEFINE u == [x EXCEPT !.toApp = q, !.timers = t, !.state = "FOREGROUND", !.update = FALSE,
                              !.pending = "INITIAL"]
    <3>1. y = [o EXCEPT !.pending = "INITIAL"]
      BY <1>4, <1>9, <2>1, <2>4 DEF CompleteForegroundSuccess
    <3>2. y = u
      BY <3>1 DEF Record
    <3>3. u \in Record
      BY <1>1, <1>3 DEF Record, States, Pendings, Order
    <3>4. Sound(u) /\ (Guarded(x) => Guarded(u)) /\ ~Ending(x)
      BY <1>7, <2>4 DEF Sound, Guarded, Armed, Record
    <3>5. Orders(x) => Orders(u)
      BY <1>1 DEF Orders, Record
    <3>6. InUse(x) => x.pending = "FOREGROUND"
      BY <1>7, <2>4 DEF Record, Pendings
    <3>7. InUse(x) => ~u.closing /\ u.state # "TERMINATING" /\ PendingOK(u) /\ GoalOK(u)
      BY <3>6 DEF InUse, PendingOK, GoalOK, Resting, Record
    <3>8. InUse(x) => WantOK(u)
      BY <1>1, <1>9 DEF InUse, WantOK, WantKept, Record
    <3> HIDE DEF u, y
    <3> QED
      BY <1>7, <3>2, <3>3, <3>4, <3>5, <3>7, <3>8 DEF Keeps, InUse
  <2> QED
    BY <2>3, <2>4
<1> QED
  BY <1>8, <1>9

\* An ability that answers that it is frozen is taken to be in the background.
LEMMA ForegroundFreezedKeeps ==
    ASSUME NEW x \in Record, Sound(x), x.process = "up", x.state = "FOREGROUNDING",
           x.toApp # <<>>, Head(x.toApp) = "foreground", "freezed" \in inputs
    PROVE  Keeps(x, [RemoveForegroundTimeoutTask([x EXCEPT !.toApp = Tail(x.toApp)])
                         EXCEPT !.state = "BACKGROUND"])
<1> DEFINE q == Tail(x.toApp)
           t == x.timers \ {"foreground"}
           u == [x EXCEPT !.toApp = q, !.timers = t, !.state = "BACKGROUND"]
<1>1. /\ q \in Seq(Order)
      /\ Orders(x) => ~x.foregrounding /\ NoForeground(q) /\ OneForeground(q)
  BY ForegroundAnswer
<1>2. u = [RemoveForegroundTimeoutTask([x EXCEPT !.toApp = Tail(x.toApp)]) EXCEPT !.state = "BACKGROUND"]
  BY DEF RemoveForegroundTimeoutTask, Record
<1> SUFFICES Keeps(x, u)
  BY <1>2
<1>3. t \subseteq x.timers
  OBVIOUS
<1> HIDE DEF q, t
<1>4. u \in Record
  BY <1>1, <1>3 DEF Record, States, Order
<1>5. Sound(u) /\ (Guarded(x) => Guarded(u)) /\ ~Fresh(x)
  BY DEF Sound, Guarded, Armed, Fresh, Record
<1>6. Orders(x) => Orders(u)
  BY <1>1 DEF Orders, Record
<1>7. Ending(x) => Ending(u)
  BY <1>6 DEF Ending, Record
<1>8. InUse(x) => ~u.closing /\ u.state # "TERMINATING" /\ PendingOK(u) /\ GoalOK(u)
  BY DEF InUse, PendingOK, GoalOK, Resting, Record
<1>9. InUse(x) => WantOK(u)
  BY <1>1 DEF InUse, WantOK, WantKept, PendingOK, Resting, Record
<1> HIDE DEF u
<1> QED
  BY <1>4, <1>5, <1>6, <1>7, <1>8, <1>9 DEF Keeps, InUse

\* A record that leaves its session for terminateAbilityList_.
Ends(x, y) == /\ y \in Record /\ Sound(y)
              /\ Calm /\ Guarded(x) /\ (InUse(x) \/ Ending(x)) => Ending(y) /\ Guarded(y)

\* An ability that fails to come forward is sent to the background and closed.
LEMMA ForegroundFailedEnds ==
    ASSUME NEW x \in Record, Sound(x), x.process = "up", x.state = "FOREGROUNDING",
           x.toApp # <<>>, Head(x.toApp) = "foreground"
    PROVE  Ends(x, CloseUIAbilityInner([RemoveForegroundTimeoutTask([x EXCEPT !.toApp = Tail(x.toApp)])
                                            EXCEPT !.closing = TRUE]))
<1> DEFINE q == Tail(x.toApp)
           t == x.timers \ {"foreground"}
           z == [x EXCEPT !.toApp = q, !.timers = t, !.closing = TRUE]
           v == [x EXCEPT !.toApp = q, !.timers = t, !.closing = TRUE, !.pending = "BACKGROUND"]
<1>1. /\ q \in Seq(Order)
      /\ Orders(x) => ~x.foregrounding /\ NoForeground(q) /\ OneForeground(q)
  BY ForegroundAnswer
<1>2. z = [RemoveForegroundTimeoutTask([x EXCEPT !.toApp = Tail(x.toApp)]) EXCEPT !.closing = TRUE]
  BY DEF RemoveForegroundTimeoutTask, Record
<1> SUFFICES Ends(x, CloseUIAbilityInner(z))
  BY <1>2
<1>3. t \subseteq x.timers
  OBVIOUS
<1> HIDE DEF q, t
<1>4. v = [z EXCEPT !.pending = "BACKGROUND"] /\ IsForeground(z)
  BY DEF IsForeground, Record
<1>5. v \in Record
  BY <1>1, <1>3 DEF Record, Pendings, Order
<1>6. CloseUIAbilityInner(z) = MoveToBackground(v)
  BY <1>4 DEF CloseUIAbilityInner, IsForeground
<1>7. PICK s \in Seq(Order) :
              /\ MoveToBackground(v) = [v EXCEPT !.isNewWant = FALSE, !.timers = v.timers \cup {"background"},
                                                 !.state = "BACKGROUNDING", !.toApp = s]
              /\ v.process # "up" => s = v.toApp
              /\ NoForeground(v.toApp) => NoForeground(s)
              /\ OneForeground(v.toApp) => OneForeground(s)
  BY <1>5, MoveToBackgroundShape
<1> DEFINE u == [x EXCEPT !.toApp = s, !.timers = t \cup {"background"}, !.closing = TRUE,
                          !.pending = "BACKGROUND", !.isNewWant = FALSE, !.state = "BACKGROUNDING"]
<1>8. CloseUIAbilityInner(z) = u
  <2> DEFINE tt == t \cup {"background"}
  <2>1. v.timers \cup {"background"} = tt
    BY DEF Record
  <2> HIDE DEF tt
  <2>2. CloseUIAbilityInner(z) = [v EXCEPT !.isNewWant = FALSE, !.timers = tt,
                                           !.state = "BACKGROUNDING", !.toApp = s]
    BY <1>6, <1>7, <2>1
  <2>3. [v EXCEPT !.isNewWant = FALSE, !.timers = tt, !.state = "BACKGROUNDING", !.toApp = s]
          = [x EXCEPT !.toApp = s, !.timers = tt, !.closing = TRUE,
                      !.pending = "BACKGROUND", !.isNewWant = FALSE, !.state = "BACKGROUNDING"]
    BY DEF Record
  <2> QED
    BY <2>2, <2>3 DEF tt
<1>9. /\ NoForeground(q) => NoForeground(s)
      /\ OneForeground(q) => OneForeground(s)
  BY <1>7 DEF Record
<1>10. u \in Record
  BY <1>3 DEF Record, States, Pendings, Order
<1>11. Sound(u) /\ (Guarded(x) => Guarded(u))
  BY DEF Sound, Guarded, Armed, Record
<1>12. Orders(x) => Ending(u)
  BY <1>1, <1>9 DEF Orders, Ending, Sound, Record
<1> HIDE DEF u
<1> QED
  BY <1>8, <1>10, <1>11, <1>12 DEF Ends, InUse, Ending
-------------------------------------------------------------------------------
(* What deaths, tasks and delayed events do to a record.                   *)

\* The ability has gone to the background: a task is posted that completes it.
LEMMA DispatchBackgroundKeeps ==
    ASSUME NEW x \in Record, Sound(x), x.process = "up", x.toApp # <<>>, x.state = "BACKGROUNDING"
    PROVE  Keeps(x, [[x EXCEPT !.toApp = Tail(x.toApp)]
                        EXCEPT !.timers = @ \ {"background"}, !.tasks = @ \cup {"CompleteBackground"}])
<1> DEFINE q == Tail(x.toApp)
           t == x.timers \ {"background"}
           k == x.tasks \cup {"CompleteBackground"}
           y == [x EXCEPT !.toApp = q, !.timers = t, !.tasks = k]
<1>1. [[x EXCEPT !.toApp = Tail(x.toApp)]
          EXCEPT !.timers = @ \ {"background"}, !.tasks = @ \cup {"CompleteBackground"}] = y
  BY DEF Record
<1> SUFFICES Keeps(x, y)
  BY <1>1
<1>2. x.toApp \in Seq(Order)
  BY DEF Record, Order
<1>3. /\ q \in Seq(Order) /\ (NoForeground(x.toApp) => NoForeground(q))
      /\ (OneForeground(x.toApp) => OneForeground(q))
  BY <1>2, TailOrder
<1>4. /\ t \subseteq x.timers /\ "CompleteBackground" \in k
      /\ "OnAbilityDied" \in k <=> "OnAbilityDied" \in x.tasks
  OBVIOUS
<1>5. k \subseteq {"CompleteBackground", "CompleteTerminate", "OnAbilityDied"}
  BY DEF Record
<1> HIDE DEF q, t, k
<1>6. y \in Record
  BY <1>3, <1>4, <1>5 DEF Record, Order
<1>7. Sound(y) /\ ~Fresh(x) /\ (Guarded(x) => Guarded(y))
  BY <1>4 DEF Sound, Fresh, Guarded, Armed, Record
<1>8. Orders(x) => Orders(y)
  BY <1>3 DEF Orders, Record
<1>9. Ending(x) => Ending(y)
  BY <1>8 DEF Ending, Record
<1>10. InUse(x) => ~y.closing /\ y.state # "TERMINATING" /\ PendingOK(y) /\ GoalOK(y)
  BY DEF InUse, PendingOK, GoalOK, Resting, Record
<1>11. InUse(x) => WantOK(y)
  BY <1>3 DEF InUse, WantOK, WantKept, Record
<1> HIDE DEF y
<1> QED
  BY <1>6, <1>7, <1>8, <1>9, <1>10, <1>11 DEF Keeps, InUse

\* The ability has ended: the same for CompleteTerminate.
LEMMA AbilityTerminatedKeeps ==
    ASSUME NEW x \in Record, Sound(x), x.process = "up", x.toApp # <<>>, x.state = "TERMINATING"
    PROVE  Keeps(x, DispatchTerminate([x EXCEPT !.toApp = Tail(x.toApp)]))
<1> DEFINE q == Tail(x.toApp)
           t == x.timers \ {"terminate"}
           k == x.tasks \cup {"CompleteTerminate"}
           y == [x EXCEPT !.toApp = q, !.timers = t, !.tasks = k]
<1>1. DispatchTerminate([x EXCEPT !.toApp = Tail(x.toApp)]) = y
  BY DEF DispatchTerminate, Record
<1> SUFFICES Keeps(x, y)
  BY <1>1
<1>2. x.toApp \in Seq(Order)
  BY DEF Record, Order
<1>3. /\ q \in Seq(Order) /\ (NoForeground(x.toApp) => NoForeground(q))
      /\ (OneForeground(x.toApp) => OneForeground(q))
  BY <1>2, TailOrder
<1>4. /\ t \subseteq x.timers /\ "CompleteTerminate" \in k
      /\ "OnAbilityDied" \in k <=> "OnAbilityDied" \in x.tasks
  OBVIOUS
<1>5. k \subseteq {"CompleteBackground", "CompleteTerminate", "OnAbilityDied"}
  BY DEF Record
<1> HIDE DEF q, t, k
<1>6. y \in Record
  BY <1>3, <1>4, <1>5 DEF Record, Order
<1>7. Sound(y) /\ ~Fresh(x) /\ ~InUse(x) /\ (Guarded(x) => Guarded(y))
  BY <1>4 DEF Sound, Fresh, InUse, Guarded, Armed, Record
<1>8. Orders(x) => Orders(y)
  BY <1>3 DEF Orders, Record
<1>9. Ending(x) => Ending(y)
  BY <1>8 DEF Ending, Record
<1> HIDE DEF y
<1> QED
  BY <1>6, <1>7, <1>8, <1>9 DEF Keeps

\* The application manager's answer for a record that is not listed any more.
LEMMA RequestForgotten ==
    ASSUME NEW x \in Record, Sound(x)
    PROVE  LET y == [x EXCEPT !.foregrounding = FALSE] IN y \in Record /\ Sound(y) /\ (Fresh(x) => Fresh(y))
  BY DEF Sound, Fresh, Record

\* A process that dies takes its orders with it, and its death recipient, if there
\* is one, posts a task.
LEMMA ProcessDiesKeeps ==
    ASSUME NEW x \in Record, Sound(x), x.process \in {"loading", "up"},
           x.attaching => "attachCrash" \in inputs
    PROVE  Keeps(x, [x EXCEPT !.process = "dead", !.foregrounding = FALSE, !.toApp = <<>>,
                              !.tasks = IF x.process = "up" /\ ~x.watched THEN @
                                        ELSE @ \cup {"OnAbilityDied"}])
<1> DEFINE k == IF x.process = "up" /\ ~x.watched THEN x.tasks ELSE x.tasks \cup {"OnAbilityDied"}
           q == <<>>
           y == [x EXCEPT !.process = "dead", !.foregrounding = FALSE, !.toApp = q, !.tasks = k]
<1> SUFFICES Keeps(x, y)
  OBVIOUS
<1>1. /\ k \subseteq {"CompleteBackground", "CompleteTerminate", "OnAbilityDied"}
      /\ Guarded(x) => "OnAbilityDied" \in k
  BY DEF Guarded, Record
<1>2. q \in Seq(Order) /\ q = <<>> /\ NoForeground(q) /\ OneForeground(q)
  BY EmptyOrder
<1> HIDE DEF k, q
<1>3. y \in Record
  BY <1>1, <1>2 DEF Record, Order
<1>4. Sound(y) /\ ~Fresh(x)
  BY <1>2 DEF Sound, Fresh, Record
<1>5. Guarded(x) => Guarded(y)
  BY <1>1 DEF Guarded, Record
<1>6. Orders(y)
  BY <1>2 DEF Orders, Record
<1>7. Ending(x) => Ending(y)
  BY <1>6 DEF Ending, Record
<1>8. InUse(x) => ~y.closing /\ y.state # "TERMINATING" /\ PendingOK(y) /\ GoalOK(y)
  BY DEF InUse, PendingOK, GoalOK, Resting, Record
<1>9. InUse(x) => WantOK(y)
  BY <1>2 DEF InUse, WantOK, WantKept, Record
<1> HIDE DEF y
<1> QED
  BY <1>3, <1>4, <1>5, <1>6, <1>7, <1>8, <1>9 DEF Keeps, InUse

\* A task or a delayed event that ends no transition of the record it is for.
LEMMA EventKeeps ==
    ASSUME NEW x \in Record, Sound(x), NEW t \in SUBSET x.timers, NEW k \in SUBSET x.tasks,
           "OnAbilityDied" \in x.tasks => "OnAbilityDied" \in k,
           x.state = "INITIAL" /\ "load" \in x.timers => "load" \in t,
           x.state = "FOREGROUNDING" /\ "foreground" \in x.timers => "foreground" \in t,
           x.state = "BACKGROUNDING" => /\ "background" \in x.timers => "background" \in t
                                        /\ "CompleteBackground" \in x.tasks => "CompleteBackground" \in k,
           x.state = "TERMINATING" => /\ "terminate" \in x.timers => "terminate" \in t
                                      /\ "kill" \in x.timers => "kill" \in t
                                      /\ "CompleteTerminate" \in x.tasks => "CompleteTerminate" \in k
    PROVE  Keeps(x, [x EXCEPT !.timers = t, !.tasks = k])
<1> DEFINE y == [x EXCEPT !.timers = t, !.tasks = k]
<1> SUFFICES Keeps(x, y)
  OBVIOUS
<1>1. y \in Record
  BY DEF Record
<1>2. Sound(y) /\ (Fresh(x) => Fresh(y)) /\ (Ending(x) => Ending(y))
  BY DEF Sound, Fresh, Ending, Orders, Record
<1>3. Guarded(x) => Guarded(y)
  BY DEF Guarded, Armed, Record
<1>4. InUse(x) => ~y.closing /\ y.state # "TERMINATING" /\ PendingOK(y) /\ GoalOK(y) /\ Orders(y)
  BY DEF InUse, PendingOK, GoalOK, Resting, Orders, Record
<1>5. InUse(x) => WantOK(y)
  BY DEF InUse, WantOK, WantKept, Record
<1> HIDE DEF y
<1> QED
  BY <1>1, <1>2, <1>3, <1>4, <1>5 DEF Keeps, InUse

\* What a record becomes when it has arrived in the background.
AfterBackground(x) ==
    CASE x.pending = "FOREGROUND" -> [MoveToForeground(x) EXCEPT !.update = (x.lastWant # NoWant)]
      [] x.pending = "BACKGROUND" -> [x EXCEPT !.state = "BACKGROUND", !.pending = "INITIAL",
                                               !.lastWant = NoWant]
      [] OTHER                    -> [x EXCEPT !.state = "BACKGROUND"]

\* It comes forward again if that was asked for, and is at rest otherwise; one that
\* is being ended is in the background, where it is terminated.
LEMMA BackgroundDone ==
    ASSUME NEW x \in Record, Sound(x), x.state = "BACKGROUNDING",
           NEW t \in SUBSET x.timers, NEW k \in SUBSET x.tasks,
           "OnAbilityDied" \in x.tasks => "OnAbilityDied" \in k
    PROVE  LET y == AfterBackground([x EXCEPT !.timers = t, !.tasks = k])
           IN  /\ y \in Record /\ Sound(y)
               /\ InUse(x) => InUse(y)
               /\ Guarded(x) => Guarded(y)
               /\ Ending(x) => y.state = "BACKGROUND" /\ Orders(y)
<1> DEFINE z == [x EXCEPT !.timers = t, !.tasks = k]
           y == AfterBackground(z)
<1>1. z \in Record /\ z.pending = x.pending /\ z.lastWant = x.lastWant /\ NoWant \in AnyWant
  BY DEF Record, AnyWant
<1>2. InUse(x) => x.pending # "INITIAL"
  BY DEF InUse, PendingOK, Resting
<1>3. CASE x.pending = "FOREGROUND"
  <2> DEFINE b == (x.lastWant # NoWant)
             tt == t \cup {"foreground"}
             u == [x EXCEPT !.timers = tt, !.tasks = k, !.state = "FOREGROUNDING",
                            !.foregrounding = TRUE, !.update = b]
  <2>1. tt \subseteq {"load", "foreground", "background", "terminate", "kill"} /\ "foreground" \in tt
    BY DEF Record
  <2>2. z.timers \cup {"foreground"} = tt
    BY DEF Record
  <2>3. y = [MoveToForeground(z) EXCEPT !.update = b]
    BY <1>1, <1>3 DEF AfterBackground
  <2>4. b \in BOOLEAN
    OBVIOUS
  <2> HIDE DEF tt, b
  <2>5. MoveToForeground(z) = [z EXCEPT !.timers = tt, !.state = "FOREGROUNDING", !.foregrounding = TRUE]
    BY <1>1, <2>2, MoveToForegroundShape
  <2>6. y = u
    <3> DEFINE w == [z EXCEPT !.timers = tt, !.state = "FOREGROUNDING", !.foregrounding = TRUE]
               v == [x EXCEPT !.timers = tt, !.tasks = k, !.state = "FOREGROUNDING",
                              !.foregrounding = TRUE]
    <3>0. w = v
      BY DEF Record
    <3>1. [w EXCEPT !.update = b] = u
      <4>1. [v EXCEPT !.update = b] = u
        BY DEF Record
      <4> HIDE DEF w, v, u
      <4> QED
        BY <3>0, <4>1
    <3>2. y = [w EXCEPT !.update = b]
      <4> HIDE DEF y
      <4> QED
        BY <2>3, <2>5, Zenon
    <3> QED
      BY <3>1, <3>2, Zenon
  <2>7. u \in Record
    BY <2>1, <2>4 DEF Record, States
  <2>8. Sound(u) /\ ~Ending(x)
    BY <1>3 DEF Sound, Ending, Record
  <2>9. Guarded(x) => Guarded(u)
    BY <2>1 DEF Guarded, Armed, Record
  <2>10. InUse(x) => ~u.closing /\ u.state # "TERMINATING" /\ PendingOK(u) /\ GoalOK(u) /\ Orders(u)
    BY <1>3 DEF InUse, PendingOK, GoalOK, Resting, Orders, Record
  <2>11. InUse(x) => WantOK(u)
    BY <1>3 DEF InUse, WantOK, WantKept, Record
  <2> HIDE DEF u
  <2>12. /\ u \in Record /\ Sound(u)
         /\ InUse(x) => InUse(u)
         /\ Guarded(x) => Guarded(u)
         /\ Ending(x) => u.state = "BACKGROUND" /\ Orders(u)
    BY <2>7, <2>8, <2>9, <2>10, <2>11 DEF InUse
  <2> QED
    BY <2>6, <2>12
<1>4. CASE x.pending = "BACKGROUND"
  <2> DEFINE u == [x EXCEPT !.timers = t, !.tasks = k, !.state = "BACKGROUND", !.pending = "INITIAL",
                            !.lastWant = NoWant]
  <2>1. y = [z EXCEPT !.state = "BACKGROUND", !.pending = "INITIAL", !.lastWant = NoWant]
    BY <1>1, <1>4 DEF AfterBackground
  <2>2. y = u
    BY <2>1 DEF Record
  <2>3. u \in Record
    BY <1>1 DEF Record, States, Pendings
  <2>4. Sound(u)
    BY DEF Sound, Record
  <2>5. Guarded(x) => Guarded(u)
    BY DEF Guarded, Armed, Record
  <2>6. Orders(x) => Orders(u) /\ NoForeground(u.toApp)
    BY DEF Orders, Record
  <2>7. InUse(x) => ~u.closing /\ u.state # "TERMINATING" /\ PendingOK(u) /\ GoalOK(u)
    BY <1>4 DEF InUse, PendingOK, GoalOK, Resting, Record
  <2>8. InUse(x) => WantOK(u)
    BY <1>4, <2>6 DEF InUse, WantOK, WantKept, Record
  <2>9. u.state = "BACKGROUND"
    BY DEF Record
  <2> HIDE DEF u
  <2>10. /\ u \in Record /\ Sound(u)
         /\ InUse(x) => InUse(u)
         /\ Guarded(x) => Guarded(u)
         /\ Ending(x) => u.state = "BACKGROUND" /\ Orders(u)
    BY <2>3, <2>4, <2>5, <2>6, <2>7, <2>8, <2>9 DEF InUse, Ending
  <2> QED
    BY <2>2, <2>10
<1>5. CASE x.pending = "INITIAL"
  <2> DEFINE u == [x EXCEPT !.timers = t, !.tasks = k, !.state = "BACKGROUND"]
  <2>1. y = [z EXCEPT !.state = "BACKGROUND"]
    BY <1>1, <1>5 DEF AfterBackground
  <2>2. y = u
    BY <2>1 DEF Record
  <2>3. u \in Record
    BY DEF Record, States
  <2>4. Sound(u) /\ ~InUse(x) /\ ~Ending(x)
    BY <1>2, <1>5 DEF Sound, Ending, Record
  <2>5. Guarded(x) => Guarded(u)
    BY DEF Guarded, Armed, Record
  <2> HIDE DEF u
  <2>6. /\ u \in Record /\ Sound(u)
        /\ InUse(x) => InUse(u)
        /\ Guarded(x) => Guarded(u)
        /\ Ending(x) => u.state = "BACKGROUND" /\ Orders(u)
    BY <2>3, <2>4, <2>5
  <2> QED
    BY <2>2, <2>6
<1> QED
  BY <1>3, <1>4, <1>5 DEF Record, Pendings

\* A record in the background that is terminated.
LEMMA TerminateEnds ==
    ASSUME NEW x \in Record, Sound(x), x.state = "BACKGROUND"
    PROVE  LET y == Terminate(x)
           IN  /\ y \in Record /\ Sound(y)
               /\ Orders(x) => Ending(y)
               /\ Guarded(x) => Guarded(y)
<1>1. PICK q \in Seq(Order) :
          /\ Terminate(x) = [x EXCEPT !.timers = x.timers \cup {"terminate"},
                                      !.state = "TERMINATING", !.toApp = q]
          /\ x.process # "up" => q = x.toApp
          /\ NoForeground(x.toApp) => NoForeground(q)
          /\ OneForeground(x.toApp) => OneForeground(q)
  BY TerminateShape
<1> DEFINE u == [x EXCEPT !.timers = x.timers \cup {"terminate"}, !.state = "TERMINATING", !.toApp = q]
<1>2. u \in Record
  BY DEF Record, States, Order
<1>3. Sound(u) /\ (Guarded(x) => Guarded(u))
  BY <1>1 DEF Sound, Guarded, Armed, Record
<1>4. Orders(x) => Ending(u)
  BY <1>1 DEF Sound, Orders, Ending, Record
<1> QED
  BY <1>1, <1>2, <1>3, <1>4

\* A record that is done with.
LEMMA CompleteTerminateSound ==
    ASSUME NEW x \in Record, Sound(x), NEW t \in SUBSET x.timers, NEW k \in SUBSET x.tasks
    PROVE  LET y == TerminateAbility([[x EXCEPT !.timers = t, !.tasks = k] EXCEPT !.watched = FALSE])
           IN  y \in Record /\ Sound(y)
<1> DEFINE y == TerminateAbility([[x EXCEPT !.timers = t, !.tasks = k] EXCEPT !.watched = FALSE])
           u == [x EXCEPT !.timers = t, !.tasks = k, !.watched = FALSE, !.killed = TRUE]
<1>1. y = u
  BY DEF TerminateAbility, Record
<1>2. u \in Record
  BY DEF Record
<1>3. Sound(u)
  BY DEF Sound, Record
<1> QED
  BY <1>1, <1>2, <1>3

\* OnAbilityDied: whatever was under way, the record is being ended.
LEMMA AbilityDiedEnds ==
    ASSUME NEW x \in Record, Sound(x), "OnAbilityDied" \in x.tasks,
           NEW over \in SUBSET {"load", "foreground", "background"}
    PROVE  LET z == [x EXCEPT !.tasks = @ \ {"OnAbilityDied"}]
               y == DispatchTerminate([z EXCEPT !.timers = @ \ over, !.state = "TERMINATING", !.killed = TRUE])
           IN  y \in Record /\ Sound(y) /\ Ending(y) /\ Guarded(y)
<1> DEFINE z == [x EXCEPT !.tasks = @ \ {"OnAbilityDied"}]
           y == DispatchTerminate([z EXCEPT !.timers = @ \ over, !.state = "TERMINATING", !.killed = TRUE])
           t == (x.timers \ over) \ {"terminate"}
           k == (x.tasks \ {"OnAbilityDied"}) \cup {"CompleteTerminate"}
           u == [x EXCEPT !.tasks = k, !.timers = t, !.state = "TERMINATING", !.killed = TRUE]
<1>1. y = u
  BY DEF DispatchTerminate, Record
<1>2. /\ t \subseteq x.timers /\ k \subseteq {"CompleteBackground", "CompleteTerminate", "OnAbilityDied"}
      /\ "CompleteTerminate" \in k /\ "OnAbilityDied" \notin k
  BY DEF Record
<1> HIDE DEF t, k
<1>3. u \in Record
  BY <1>2 DEF Record, States
<1>4. x.process = "dead" /\ x.toApp = <<>>
  BY DEF Sound
<1>5. Sound(u) /\ Guarded(u)
  BY <1>2, <1>4 DEF Sound, Guarded, Record
<1>6. Ending(u)
  BY <1>4, EmptyOrder DEF Ending, Orders, Record
<1> QED
  BY <1>1, <1>3, <1>5, <1>6

\* DelayCompleteTerminate: the process gets some time before it is killed.
LEMMA TerminateTimeoutKeeps ==
    ASSUME NEW x \in Record, Sound(x)
    PROVE  Keeps(x, [[x EXCEPT !.timers = @ \ {"terminate"}] EXCEPT !.timers = @ \cup {"kill"}])
<1> DEFINE t == (x.timers \ {"terminate"}) \cup {"kill"}
           y == [x EXCEPT !.timers = t]
<1>1. [[x EXCEPT !.timers = @ \ {"terminate"}] EXCEPT !.timers = @ \cup {"kill"}] = y
  BY DEF Record
<1> SUFFICES Keeps(x, y)
  BY <1>1
<1>2. /\ t \subseteq {"load", "foreground", "background", "terminate", "kill"} /\ "kill" \in t
      /\ \A e \in {"load", "foreground", "background"} : e \in x.timers => e \in t
  BY DEF Record
<1> HIDE DEF t
<1>3. y \in Record
  BY <1>2 DEF Record
<1>4. Sound(y) /\ (Fresh(x) => Fresh(y)) /\ (Ending(x) => Ending(y)) /\ (Guarded(x) => Guarded(y))
  BY <1>2 DEF Sound, Fresh, Ending, Orders, Guarded, Armed, Record
<1>5. InUse(x) => ~y.closing /\ y.state # "TERMINATING" /\ PendingOK(y) /\ GoalOK(y) /\ Orders(y)
  BY DEF InUse, PendingOK, GoalOK, Resting, Orders, Record
<1>6. InUse(x) => WantOK(y)
  BY DEF InUse, WantOK, WantKept, Record
<1> HIDE DEF y
<1> QED
  BY <1>3, <1>4, <1>5, <1>6 DEF Keeps, InUse

\* A start or a way to the foreground that took too long: the process is ended.
LEMMA TimeOutEnds ==
    ASSUME NEW x \in Record, Sound(x), NEW timer
    PROVE  LET y == [[x EXCEPT !.timers = @ \ {timer}] EXCEPT !.killed = TRUE]
           IN  /\ y \in Record /\ Sound(y)
               /\ Ending(x) => Ending(y)
               /\ Guarded(x) => Guarded(y)
<1> DEFINE t == x.timers \ {timer}
           y == [x EXCEPT !.timers = t, !.killed = TRUE]
<1>1. [[x EXCEPT !.timers = @ \ {timer}] EXCEPT !.killed = TRUE] = y
  BY DEF Record
<1>2. t \subseteq x.timers
  OBVIOUS
<1> HIDE DEF t
<1>3. y \in Record
  BY <1>2 DEF Record
<1>4. Sound(y) /\ (Ending(x) => Ending(y)) /\ (Guarded(x) => Guarded(y))
  BY DEF Sound, Ending, Orders, Guarded, Record
<1> QED
  BY <1>1, <1>3, <1>4

LEMMA TimeOutForgotten ==
    ASSUME NEW x \in Record, Sound(x), NEW timer
    PROVE  LET y == [x EXCEPT !.timers = @ \ {timer}] IN y \in Record /\ Sound(y) /\ (Fresh(x) => Fresh(y))
<1> DEFINE t == x.timers \ {timer}
           y == [x EXCEPT !.timers = t]
<1>1. t \subseteq x.timers
  OBVIOUS
<1> HIDE DEF t
<1>2. y \in Record /\ Sound(y) /\ (Fresh(x) => Fresh(y))
  BY <1>1 DEF Sound, Fresh, Record
<1> QED
  BY <1>2 DEF t

\* CloseUIAbilityInner.
LEMMA CloseInner ==
    ASSUME NEW x \in Record, Sound(x)
    PROVE  LET y == CloseUIAbilityInner(x)
           IN  /\ y \in Record /\ Sound(y)
               /\ Orders(x) /\ Guarded(x) /\ Resting(x) => Ending(y) /\ Guarded(y)
               /\ x.state = "TERMINATING" => y = x
<1> DEFINE y == CloseUIAbilityInner(x)
<1>1. CASE IsForeground(x)
  <2> DEFINE v == [x EXCEPT !.pending = "BACKGROUND"]
  <2>1. v \in Record
    BY DEF Record, Pendings
  <2>2. y = MoveToBackground(v)
    BY <1>1 DEF CloseUIAbilityInner, IsForeground
  <2>3. PICK s \in Seq(Order) :
              /\ MoveToBackground(v) = [v EXCEPT !.isNewWant = FALSE, !.timers = v.timers \cup {"background"},
                                                 !.state = "BACKGROUNDING", !.toApp = s]
              /\ v.process # "up" => s = v.toApp
              /\ NoForeground(v.toApp) => NoForeground(s)
              /\ OneForeground(v.toApp) => OneForeground(s)
    BY <2>1, MoveToBackgroundShape
  <2> DEFINE u == [x EXCEPT !.pending = "BACKGROUND", !.isNewWant = FALSE,
                            !.timers = x.timers \cup {"background"},
                            !.state = "BACKGROUNDING", !.toApp = s]
  <2>4. y = u
    BY <2>2, <2>3 DEF Record
  <2>5. u \in Record
    BY DEF Record, States, Pendings, Order
  <2>6. Sound(u) /\ (Guarded(x) => Guarded(u)) /\ x.state # "TERMINATING"
    BY <1>1, <2>3 DEF Sound, Guarded, Armed, IsForeground, Record
  <2>7. Orders(x) /\ Resting(x) => Ending(u)
    BY <1>1, <2>3 DEF IsForeground, Resting, Orders, Ending, Sound, Record
  <2> QED
    BY <2>4, <2>5, <2>6, <2>7
<1>2. CASE x.state = "BACKGROUND"
  <2>1. y = Terminate(x)
    BY <1>2 DEF CloseUIAbilityInner, IsForeground
  <2> QED
    BY <1>2, <2>1, TerminateEnds
<1>3. CASE ~IsForeground(x) /\ x.state # "BACKGROUND"
  <2>1. y = x
    BY <1>3 DEF CloseUIAbilityInner
  <2>2. ~Resting(x)
    BY <1>3 DEF IsForeground, Resting
  <2> QED
    BY <2>1, <2>2
<1> QED
  BY <1>1, <1>2, <1>3

\* What CloseUIAbility does to a record, for request "op".
Closed(old, op) ==
    LET x == [old EXCEPT !.closing = TRUE, !.goal = "closed"]
    IN  CASE x.state = "INITIAL" -> TerminateAbility([x EXCEPT !.timers = @ \ {"load"}])
          [] x.state # "INITIAL" /\ x.pending = "INITIAL" -> CloseUIAbilityInner(x)
          [] x.state # "INITIAL" /\ x.pending # "INITIAL" /\ op = "close" ->
               [x EXCEPT !.pending = "BACKGROUND"]
          [] OTHER -> CloseUIAbilityInner(RemoveForegroundTimeoutTask([x EXCEPT !.pending = "BACKGROUND"]))

\* A record that is closed while it is at rest goes to its end at once, one in the
\* middle of a transition at the end of that.
LEMMA CloseRequestEnds ==
    ASSUME NEW x \in Record, Sound(x), NEW op
    PROVE  LET y == Closed(x, op)
           IN  /\ y \in Record /\ Sound(y)
               /\ x.state # "INITIAL" /\ op = "close" /\ Guarded(x) /\ InUse(x) => Ending(y) /\ Guarded(y)
<1> DEFINE z == [x EXCEPT !.closing = TRUE, !.goal = "closed"]
           y == Closed(x, op)
<1>1. z \in Record /\ z.state = x.state /\ z.pending = x.pending
  BY DEF Record
<1>2. Sound(z) /\ (Orders(x) => Orders(z)) /\ (Guarded(x) => Guarded(z))
  BY DEF Sound, Orders, Guarded, Armed, Record
<1>3. CASE x.state = "INITIAL"
  <2> DEFINE t == x.timers \ {"load"}
             u == [x EXCEPT !.closing = TRUE, !.goal = "closed", !.timers = t, !.killed = TRUE]
  <2>1. t \subseteq x.timers /\ z.timers \ {"load"} = t
    BY DEF Record
  <2>2. y = TerminateAbility([z EXCEPT !.timers = t])
    BY <1>1, <1>3, <2>1 DEF Closed
  <2> HIDE DEF t
  <2>3. y = u
    BY <2>2 DEF TerminateAbility, Record
  <2>4. u \in Record
    BY <2>1 DEF Record
  <2>5. Sound(u)
    BY DEF Sound, Record
  <2> QED
    BY <1>3, <2>3, <2>4, <2>5
<1>4. CASE x.state # "INITIAL" /\ x.pending = "INITIAL"
  <2>1. y = CloseUIAbilityInner(z)
    BY <1>1, <1>4 DEF Closed
  <2>2. InUse(x) => Resting(z) /\ Orders(x)
    BY <1>1, <1>4 DEF InUse, PendingOK, Resting
  <2> HIDE DEF z, y
  <2>3. /\ y \in Record /\ Sound(y)
        /\ Orders(z) /\ Guarded(z) /\ Resting(z) => Ending(y) /\ Guarded(y)
    BY <1>1, <1>2, <2>1, CloseInner
  <2>4. /\ y \in Record /\ Sound(y)
        /\ Guarded(x) /\ InUse(x) => Ending(y) /\ Guarded(y)
    BY <1>2, <2>2, <2>3
  <2> QED
    BY <2>4 DEF y
<1>5. CASE x.state # "INITIAL" /\ x.pending # "INITIAL" /\ op = "close"
  <2> DEFINE u == [x EXCEPT !.closing = TRUE, !.goal = "closed", !.pending = "BACKGROUND"]
  <2>1. y = [z EXCEPT !.pending = "BACKGROUND"]
    BY <1>1, <1>5 DEF Closed
  <2>2. y = u
    BY <2>1 DEF Record
  <2>3. u \in Record
    BY DEF Record, Pendings
  <2>4. Sound(u) /\ (Guarded(x) => Guarded(u)) /\ (Orders(x) => Orders(u))
    BY DEF Sound, Guarded, Armed, Orders, Record
  <2>5. InUse(x) => Ending(u)
    BY <1>5, <2>4 DEF InUse, PendingOK, Ending, Sound, Record, States
  <2> QED
    BY <2>2, <2>3, <2>4, <2>5
<1>6. CASE x.state # "INITIAL" /\ x.pending # "INITIAL" /\ op # "close"
  <2> DEFINE t == x.timers \ {"foreground"}
             u == [x EXCEPT !.closing = TRUE, !.goal = "closed", !.pending = "BACKGROUND", !.timers = t]
  <2>1. t \subseteq x.timers
    OBVIOUS
  <2>2. y = CloseUIAbilityInner(RemoveForegroundTimeoutTask([z EXCEPT !.pending = "BACKGROUND"]))
    BY <1>1, <1>6 DEF Closed
  <2>3. RemoveForegroundTimeoutTask([z EXCEPT !.pending = "BACKGROUND"]) = u
    BY DEF RemoveForegroundTimeoutTask, Record
  <2> HIDE DEF t
  <2>4. u \in Record
    BY <2>1 DEF Record, Pendings
  <2>5. Sound(u)
    BY DEF Sound, Record
  <2> HIDE DEF u
  <2> QED
    BY <1>6, <2>2, <2>3, <2>4, <2>5, CloseInner
<1> QED
  BY <1>3, <1>4, <1>5, <1>6
-------------------------------------------------------------------------------
(* Steps.                                                                  *)

Budget == \E e \in Environments : inputs = e.inputs /\ requests \in 0..e.requests /\ crashes \in 0..e.crashes

CallsIn(recs) == calls \subseteq [op : {"minimize", "close", "recover"}, rec : recs]

\* What a record must be in the place it is in after a step.
LEMMA RecordAfter ==
    ASSUME NEW r, inputs' = inputs, Sound(rec'[r]),
           r \in tmpAbilityMap' => Fresh(rec'[r]),
           InSession(r)' => InUse(rec'[r]),
           Calm /\ r \in terminateList' => Ending(rec'[r]),
           Calm /\ (r \in terminateList' \/ InSession(r)') => Guarded(rec'[r])
    PROVE  RecordOK(r)'
<1>1. Sound(rec[r])'
  BY DEF Sound
<1>2. (r \in tmpAbilityMap => Fresh(rec[r]))'
  BY DEF Fresh
<1>3. (InSession(r) => InUse(rec[r]))'
  BY DEF InUse, Orders, NoForeground, OneForeground, PendingOK, Resting, GoalOK, WantOK, WantKept, Quiet
<1>4. (Calm /\ r \in terminateList => Ending(rec[r]))'
  BY DEF Ending, Orders, NoForeground, OneForeground, Calm
<1>5. (Calm /\ Known(r) => Guarded(rec[r]))'
  BY DEF Known, InSession, Guarded, Armed, Calm
<1> QED
  BY <1>1, <1>2, <1>3, <1>4, <1>5 DEF RecordOK

\* A record that a step does not touch.
LEMMA RecordSame ==
    ASSUME NEW r, RecordOK(r), inputs' = inputs, rec'[r] = rec[r],
           r \in tmpAbilityMap' => r \in tmpAbilityMap,
           r \in terminateList' => r \in terminateList,
           InSession(r)' => InSession(r)
    PROVE  RecordOK(r)'
<1>1. /\ Sound(rec'[r])
      /\ r \in tmpAbilityMap' => Fresh(rec'[r])
      /\ InSession(r)' => InUse(rec'[r])
      /\ Calm /\ r \in terminateList' => Ending(rec'[r])
      /\ Calm /\ (r \in terminateList' \/ InSession(r)') => Guarded(rec'[r])
  BY DEF RecordOK, Known, InSession
<1> QED
  BY <1>1, RecordAfter

LEMMA BudgetStep ==
    ASSUME Budget, inputs' = inputs, requests' = requests \/ Request,
           crashes' = crashes \/ (crashes > 0 /\ crashes' = crashes - 1)
    PROVE  Budget'
<1>1. PICK e \in Environments : inputs = e.inputs /\ requests \in 0..e.requests /\ crashes \in 0..e.crashes
  BY DEF Budget
<1>2. e.requests \in Nat /\ e.crashes \in Nat
  BY UIAssumption
<1>3. requests' \in 0..e.requests /\ crashes' \in 0..e.crashes
  BY <1>1, <1>2 DEF Request
<1> QED
  BY <1>1, <1>3 DEF Budget

\* Requests that wait for the lock are not affected by the steps that overtake them.
LEMMA CallsOvertaken ==
    ASSUME CallsOK, CallsIn(created), Overtakes, created \subseteq created',
           \A c \in calls : c.rec \notin tmpAbilityMap'
    PROVE  CallsOK' /\ CallsIn(created)'
<1>1. calls' = calls /\ inputs' = inputs /\ ("late" \notin inputs => \A c \in calls : c.op = "minimize")
  BY DEF Overtakes, LateCalls
<1>2. CallsOK'
  BY <1>1 DEF CallsOK
<1>3. CallsIn(created)'
  BY <1>1 DEF CallsIn
<1> QED
  BY <1>2, <1>3

LEMMA EraseShape ==
    ASSUME TypeOK, Places, NEW r \in UIRecords, sessionAbilityMap' = EraseAbilityRecord(r)
    PROVE  /\ sessionAbilityMap' \in [Sessions -> created \cup {NoRecord}]
           /\ \A s \in Sessions : sessionAbilityMap'[s] # r
           /\ \A s \in Sessions : sessionAbilityMap'[s] \in {sessionAbilityMap[s], NoRecord}
           /\ ~InSession(r)'
  BY UIAssumption DEF EraseAbilityRecord, Places, InSession

\* A step that changes one record, which may leave its session or be put into or
\* taken from terminateAbilityList_.
LEMMA RecordStep ==
    ASSUME IInv, NEW r \in created, NEW y \in Record, Sound(y), rec' = [rec EXCEPT ![r] = y],
           created' = created, tmpAbilityMap' = tmpAbilityMap, inputs' = inputs,
           sessionAbilityMap' = sessionAbilityMap \/ sessionAbilityMap' = EraseAbilityRecord(r),
           terminateList' \in {terminateList, terminateList \cup {r}, terminateList \ {r}},
           r \in terminateList' => r \notin tmpAbilityMap /\ ~InSession(r)',
           r \in tmpAbilityMap => Fresh(y),
           InSession(r)' => InUse(y),
           Calm /\ r \in terminateList' => Ending(y),
           Calm /\ (r \in terminateList' \/ InSession(r)') => Guarded(y),
           Budget', CallsOK', CallsIn(created)'
    PROVE  IInv'
<1>1. /\ sessionAbilityMap' \in [Sessions -> created \cup {NoRecord}]
      /\ \A s \in Sessions : sessionAbilityMap'[s] \in {sessionAbilityMap[s], NoRecord}
  <2>1. CASE sessionAbilityMap' = sessionAbilityMap
    BY <2>1 DEF IInv, Places
  <2>2. CASE sessionAbilityMap' = EraseAbilityRecord(r)
    BY <2>2, EraseShape DEF IInv, TypeOK
  <2> QED
    BY <2>1, <2>2
<1>2. NoRecord \notin created /\ NoRecord \notin UIRecords
  BY UIAssumption DEF IInv, TypeOK
<1>3. \A q : q # r => (q \in terminateList' <=> q \in terminateList)
  OBVIOUS
<1>4. \A q : q # NoRecord /\ InSession(q)' => InSession(q)
  BY <1>1 DEF InSession
<1>5. TypeOK'
  <2>1. rec' \in [UIRecords -> Record] /\ created' \subseteq UIRecords
    BY DEF IInv, TypeOK
  <2>2. sessionAbilityMap' \in [Sessions -> UIRecords \cup {NoRecord}]
    BY <1>1 DEF IInv, TypeOK
  <2>3. tmpAbilityMap' \subseteq created' /\ terminateList' \subseteq created'
    BY DEF IInv, TypeOK
  <2>4. calls' \subseteq [op : {"minimize", "close", "recover"}, rec : created']
    BY DEF CallsIn
  <2>5. \E e \in Environments : inputs' = e.inputs /\ requests' \in 0..e.requests /\ crashes' \in 0..e.crashes
    BY DEF Budget
  <2> QED
    BY <2>1, <2>2, <2>3, <2>4, <2>5 DEF TypeOK
<1>6. PlacedOnce'
  <2>1. \A s, q \in Sessions :
           sessionAbilityMap'[s] = sessionAbilityMap'[q] => s = q \/ sessionAbilityMap'[s] = NoRecord
    BY <1>1 DEF IInv, PlacedOnce
  <2>2. ASSUME NEW s \in Sessions PROVE sessionAbilityMap'[s] \notin terminateList' \cup tmpAbilityMap'
    <3>1. CASE sessionAbilityMap'[s] = r
      BY <1>1, <1>2, <3>1 DEF IInv, PlacedOnce, InSession
    <3>2. CASE sessionAbilityMap'[s] # r
      BY <1>1, <1>2, <1>3, <3>2 DEF IInv, PlacedOnce, TypeOK
    <3> QED
      BY <3>1, <3>2
  <2>3. terminateList' \cap tmpAbilityMap' = {}
    BY <1>3 DEF IInv, PlacedOnce
  <2> QED
    BY <2>1, <2>2, <2>3 DEF PlacedOnce
<1>7. Places'
  BY <1>1 DEF IInv, Places
<1>8. ASSUME NEW q \in UIRecords PROVE RecordOK(q)'
  <2>1. CASE q = r
    <3>1. rec'[r] = y
      BY DEF IInv, TypeOK
    <3>2. RecordOK(r)'
      BY <3>1, RecordAfter
    <3> QED
      BY <2>1, <3>2
  <2>2. CASE q # r
    <3>1. rec'[q] = rec[q] /\ RecordOK(q)
      BY <2>2 DEF IInv, TypeOK
    <3> QED
      BY <1>2, <1>3, <1>4, <2>2, <3>1, RecordSame
  <2> QED
    BY <2>1, <2>2
<1> QED
  BY <1>5, <1>6, <1>7, <1>8 DEF IInv

LEMMA RecordFacts ==
    ASSUME IInv, NEW r \in created
    PROVE  /\ r \in UIRecords /\ rec[r] \in Record /\ Sound(rec[r]) /\ r # NoRecord
           /\ r \in tmpAbilityMap => Fresh(rec[r]) /\ ~InSession(r) /\ r \notin terminateList
           /\ InSession(r) => InUse(rec[r]) /\ r \notin terminateList
           /\ Calm /\ r \in terminateList => Ending(rec[r])
           /\ Calm /\ Known(r) => Guarded(rec[r])
           /\ Known(r) <=> r \in terminateList \/ InSession(r)
<1>1. r \in UIRecords /\ rec[r] \in Record /\ r # NoRecord
  BY UIAssumption DEF IInv, TypeOK
<1>2. /\ r \in tmpAbilityMap => ~InSession(r) /\ r \notin terminateList
      /\ InSession(r) => r \notin terminateList
  BY DEF IInv, PlacedOnce, InSession
<1>3. Known(r) <=> r \in terminateList \/ InSession(r)
  BY DEF Known, InSession
<1>4. RecordOK(r)
  BY <1>1 DEF IInv
<1> QED
  BY <1>1, <1>2, <1>3, <1>4 DEF RecordOK

\* What a step has to do with the requests that wait and with what may still happen.
Booked == Budget' /\ CallsOK' /\ CallsIn(created)'

LEMMA OvertakenBooked ==
    ASSUME IInv, Overtakes, created \subseteq created', tmpAbilityMap' \cap created \subseteq tmpAbilityMap,
           requests' = requests \/ Request,
           crashes' = crashes \/ (crashes > 0 /\ crashes' = crashes - 1)
    PROVE  Booked
<1>1. CallsOK /\ CallsIn(created) /\ Budget
  BY DEF IInv, TypeOK, CallsIn, Budget
<1>2. Budget'
  BY <1>1, BudgetStep DEF Overtakes
<1>3. \A c \in calls : c.rec \notin tmpAbilityMap'
  BY <1>1 DEF CallsOK, CallsIn
<1> QED
  BY <1>1, <1>2, <1>3, CallsOvertaken DEF Booked

\* A step that changes one record and leaves it where it is.
LEMMA KeepsStep ==
    ASSUME IInv, NEW r \in created, NEW y, Keeps(rec[r], y), rec' = [rec EXCEPT ![r] = y],
           created' = created, tmpAbilityMap' = tmpAbilityMap, inputs' = inputs,
           sessionAbilityMap' = sessionAbilityMap, terminateList' = terminateList, Booked
    PROVE  IInv'
<1>1. InSession(r)' <=> InSession(r)
  BY DEF InSession
<1>2. y \in Record /\ Sound(y)
  BY DEF Keeps
<1>3. /\ r \in terminateList' => r \notin tmpAbilityMap /\ ~InSession(r)'
      /\ r \in tmpAbilityMap => Fresh(y)
      /\ InSession(r)' => InUse(y)
  BY <1>1, RecordFacts DEF Keeps
<1>4. /\ Calm /\ r \in terminateList' => Ending(y)
      /\ Calm /\ (r \in terminateList' \/ InSession(r)') => Guarded(y)
  BY <1>1, RecordFacts DEF Keeps
<1> QED
  BY <1>2, <1>3, <1>4, RecordStep DEF Booked

\* A step that changes a record that is listed nowhere but in tmpAbilityMap_.
LEMMA UnknownStep ==
    ASSUME IInv, NEW r \in created, ~Known(r), NEW y \in Record, Sound(y), Fresh(rec[r]) => Fresh(y),
           rec' = [rec EXCEPT ![r] = y],
           created' = created, tmpAbilityMap' = tmpAbilityMap, inputs' = inputs,
           sessionAbilityMap' = sessionAbilityMap, terminateList' = terminateList, Booked
    PROVE  IInv'
<1>1. ~InSession(r)' /\ r \notin terminateList'
  BY DEF Known, InSession
<1>2. r \in tmpAbilityMap => Fresh(y)
  BY RecordFacts
<1> QED
  BY <1>1, <1>2, RecordStep DEF Booked

\* A step that moves a record from its session into terminateAbilityList_.
LEMMA EndsStep ==
    ASSUME IInv, NEW r \in created, r \notin tmpAbilityMap, NEW y \in Record, Sound(y),
           Calm => Ending(y) /\ Guarded(y), rec' = [rec EXCEPT ![r] = y],
           created' = created, tmpAbilityMap' = tmpAbilityMap, inputs' = inputs,
           sessionAbilityMap' = EraseAbilityRecord(r), terminateList' = terminateList \cup {r}, Booked
    PROVE  IInv'
<1>1. ~InSession(r)'
  BY RecordFacts, EraseShape DEF IInv
<1> QED
  BY <1>1, RecordStep DEF Booked
-------------------------------------------------------------------------------
(* One lemma for each action.                                              *)

LEMMA BeginAttachStep ==
    ASSUME IInv, NEW r \in created, BeginAttach(r)
    PROVE  IInv'
<1> DEFINE y == [rec[r] EXCEPT !.attaching = TRUE]
<1>1. rec' = [rec EXCEPT ![r] = y]
  BY DEF BeginAttach
<1>2. Keeps(rec[r], y)
  BY RecordFacts, BeginAttachKeeps DEF BeginAttach
<1>3. Booked
  BY OvertakenBooked DEF BeginAttach
<1> HIDE DEF y
<1> QED
  BY <1>1, <1>2, <1>3, KeepsStep DEF BeginAttach, Overtakes

LEMMA AttachAbilityThreadStep ==
    ASSUME IInv, NEW r \in created, AttachAbilityThread(r)
    PROVE  IInv'
<1> DEFINE z == [rec[r] EXCEPT !.attaching = FALSE, !.timers = @ \ {"load"}, !.ready = TRUE,
                               !.process = IF @ = "dead" THEN @ ELSE "up", !.watched = TRUE]
           y == IF z.byCall = "BACKGROUND" THEN MoveToBackground(z) ELSE MoveToForeground(z)
<1>1. \/ rec' = [rec EXCEPT ![r] = y]
      \/ "attachFails" \in inputs /\ rec' = [rec EXCEPT ![r] = z]
  BY DEF AttachAbilityThread
<1>2. Keeps(rec[r], y) /\ ("attachFails" \in inputs => Keeps(rec[r], z))
  BY RecordFacts, AttachKeeps, AttachFailsKeeps DEF AttachAbilityThread
<1>3. Booked
  BY OvertakenBooked DEF AttachAbilityThread
<1> HIDE DEF y, z
<1> QED
  BY <1>1, <1>2, <1>3, KeepsStep DEF AttachAbilityThread, Overtakes

LEMMA OnAbilityRequestDoneStep ==
    ASSUME IInv, NEW r \in created, OnAbilityRequestDone(r)
    PROVE  IInv'
<1> DEFINE z == [rec[r] EXCEPT !.foregrounding = FALSE]
<1>1. Booked
  BY OvertakenBooked DEF OnAbilityRequestDone
<1>2. CASE Known(r)
  <2> DEFINE y == ForegroundAbility(UpdateWantByLastWant(z))
  <2>1. rec' = [rec EXCEPT ![r] = y]
    BY <1>2 DEF OnAbilityRequestDone
  <2>2. Keeps(rec[r], y)
    BY RecordFacts, RequestDoneKeeps DEF OnAbilityRequestDone
  <2> HIDE DEF y
  <2> QED
    BY <1>1, <2>1, <2>2, KeepsStep DEF OnAbilityRequestDone, Overtakes
<1>3. CASE ~Known(r)
  <2>1. rec' = [rec EXCEPT ![r] = z]
    BY <1>3 DEF OnAbilityRequestDone
  <2>2. z \in Record /\ Sound(z) /\ (Fresh(rec[r]) => Fresh(z))
    BY RecordFacts, RequestForgotten
  <2> HIDE DEF z
  <2> QED
    BY <1>1, <1>3, <2>1, <2>2, UnknownStep DEF OnAbilityRequestDone, Overtakes
<1> QED
  BY <1>2, <1>3

\* Any answer of the ability that is not for the transition under way.
LEMMA LateAnswer ==
    ASSUME IInv, NEW r \in created, NEW o, Answered(r, o), rec' = [rec EXCEPT ![r] = Rest(r)],
           sessionAbilityMap' = sessionAbilityMap, terminateList' = terminateList
    PROVE  IInv'
<1>1. Rest(r) = [rec[r] EXCEPT !.toApp = Tail(rec[r].toApp)]
  BY DEF Rest
<1>2. Keeps(rec[r], Rest(r))
  BY <1>1, RecordFacts, RestKeeps DEF Answered
<1>3. Booked
  BY OvertakenBooked DEF Answered
<1> QED
  BY <1>2, <1>3, KeepsStep DEF Answered, Overtakes

LEMMA DispatchForegroundStep ==
    ASSUME IInv, NEW r \in created, NEW reply, reply = "freezed" => "freezed" \in inputs,
           DispatchForeground(r, reply)
    PROVE  IInv'
<1> DEFINE x == RemoveForegroundTimeoutTask(Rest(r))
<1>1. Rest(r) = [rec[r] EXCEPT !.toApp = Tail(rec[r].toApp)]
  BY DEF Rest
<1>2. /\ Answered(r, "foreground") /\ rec[r].process = "up" /\ rec[r].toApp # <<>>
      /\ Head(rec[r].toApp) = "foreground"
  BY DEF DispatchForeground, Answered
<1>3. Booked
  BY <1>2, OvertakenBooked DEF Answered
<1>4. rec[r] \in Record /\ Sound(rec[r])
  BY RecordFacts
<1>5. x.state = rec[r].state
  BY <1>1, <1>4 DEF RemoveForegroundTimeoutTask, Record
<1>6. CASE ~Known(r) \/ rec[r].state # "FOREGROUNDING"
  <2>1. /\ rec' = [rec EXCEPT ![r] = Rest(r)]
        /\ sessionAbilityMap' = sessionAbilityMap /\ terminateList' = terminateList
    BY <1>5, <1>6 DEF DispatchForeground
  <2> QED
    BY <1>2, <2>1, LateAnswer
<1>7. CASE Known(r) /\ rec[r].state = "FOREGROUNDING"
  <2>1. CASE /\ reply = "done" /\ rec' = [rec EXCEPT ![r] = CompleteForegroundSuccess(x)]
             /\ sessionAbilityMap' = sessionAbilityMap /\ terminateList' = terminateList
    <3> DEFINE y == CompleteForegroundSuccess(x)
    <3>1. Keeps(rec[r], y)
      BY <1>1, <1>2, <1>4, <1>7, ForegroundDoneKeeps
    <3> HIDE DEF y
    <3> QED
      BY <1>2, <1>3, <2>1, <3>1, KeepsStep DEF Answered, Overtakes, y
  <2>2. CASE /\ reply = "freezed" /\ rec' = [rec EXCEPT ![r] = [x EXCEPT !.state = "BACKGROUND"]]
             /\ sessionAbilityMap' = sessionAbilityMap /\ terminateList' = terminateList
    <3> DEFINE y == [x EXCEPT !.state = "BACKGROUND"]
    <3>1. Keeps(rec[r], y)
      BY <1>1, <1>2, <1>4, <1>7, <2>2, ForegroundFreezedKeeps
    <3>2. rec' = [rec EXCEPT ![r] = y]
      BY <2>2
    <3> HIDE DEF y
    <3> QED
      BY <1>2, <1>3, <2>2, <3>1, <3>2, KeepsStep DEF Answered, Overtakes
  <2>3. CASE /\ rec' = [rec EXCEPT ![r] = CloseUIAbilityInner([x EXCEPT !.closing = TRUE])]
             /\ sessionAbilityMap' = EraseAbilityRecord(r) /\ terminateList' = terminateList \cup {r}
    <3> DEFINE y == CloseUIAbilityInner([x EXCEPT !.closing = TRUE])
    <3>1. Ends(rec[r], y)
      BY <1>1, <1>2, <1>4, <1>7, ForegroundFailedEnds
    <3>2. rec' = [rec EXCEPT ![r] = y]
      BY <2>3
    <3> HIDE DEF y
    <3>3. Calm => Guarded(rec[r]) /\ (InUse(rec[r]) \/ Ending(rec[r]))
      BY <1>7, RecordFacts
    <3>4. r \notin tmpAbilityMap
      BY <1>7, RecordFacts
    <3>5. y \in Record /\ Sound(y) /\ (Calm => Ending(y) /\ Guarded(y))
      BY <3>1, <3>3 DEF Ends
    <3> QED
      BY <1>2, <1>3, <2>3, <3>2, <3>4, <3>5, EndsStep DEF Answered, Overtakes
  <2> QED
    BY <1>5, <1>7, <2>1, <2>2, <2>3 DEF DispatchForeground
<1> QED
  BY <1>6, <1>7

LEMMA DispatchBackgroundStep ==
    ASSUME IInv, NEW r \in created, DispatchBackground(r)
    PROVE  IInv'
<1>1. Rest(r) = [rec[r] EXCEPT !.toApp = Tail(rec[r].toApp)]
  BY DEF Rest
<1>2. Answered(r, "background") /\ sessionAbilityMap' = sessionAbilityMap /\ terminateList' = terminateList
  BY DEF DispatchBackground
<1>3. CASE Known(r) /\ rec[r].state = "BACKGROUNDING"
  <2> DEFINE y == [Rest(r) EXCEPT !.timers = @ \ {"background"}, !.tasks = @ \cup {"CompleteBackground"}]
  <2>1. rec' = [rec EXCEPT ![r] = y]
    BY <1>3 DEF DispatchBackground
  <2>2. Keeps(rec[r], y)
    BY <1>1, <1>2, <1>3, RecordFacts, DispatchBackgroundKeeps DEF Answered
  <2>3. Booked
    BY <1>2, OvertakenBooked DEF Answered
  <2> HIDE DEF y
  <2> QED
    BY <1>2, <2>1, <2>2, <2>3, KeepsStep DEF Answered, Overtakes
<1>4. CASE ~(Known(r) /\ rec[r].state = "BACKGROUNDING")
  BY <1>2, <1>4, LateAnswer DEF DispatchBackground
<1> QED
  BY <1>3, <1>4

LEMMA AbilityTerminatedStep ==
    ASSUME IInv, NEW r \in created, AbilityTerminated(r)
    PROVE  IInv'
<1>1. Rest(r) = [rec[r] EXCEPT !.toApp = Tail(rec[r].toApp)]
  BY DEF Rest
<1>2. Answered(r, "terminate") /\ sessionAbilityMap' = sessionAbilityMap /\ terminateList' = terminateList
  BY DEF AbilityTerminated
<1>3. CASE Known(r) /\ rec[r].state = "TERMINATING"
  <2> DEFINE y == DispatchTerminate(Rest(r))
  <2>1. rec' = [rec EXCEPT ![r] = y]
    BY <1>3 DEF AbilityTerminated
  <2>2. Keeps(rec[r], y)
    BY <1>1, <1>2, <1>3, RecordFacts, AbilityTerminatedKeeps DEF Answered
  <2>3. Booked
    BY <1>2, OvertakenBooked DEF Answered
  <2> HIDE DEF y
  <2> QED
    BY <1>2, <2>1, <2>2, <2>3, KeepsStep DEF Answered, Overtakes
<1>4. CASE ~(Known(r) /\ rec[r].state = "TERMINATING")
  BY <1>2, <1>4, LateAnswer DEF AbilityTerminated
<1> QED
  BY <1>3, <1>4

LEMMA ProcessDiesStep ==
    ASSUME IInv, NEW r \in created, ProcessDies(r)
    PROVE  IInv'
<1> DEFINE y == [rec[r] EXCEPT !.process = "dead", !.foregrounding = FALSE, !.toApp = <<>>,
                               !.tasks = IF rec[r].process = "up" /\ ~rec[r].watched THEN @
                                         ELSE @ \cup {"OnAbilityDied"}]
<1>1. rec' = [rec EXCEPT ![r] = y]
  BY DEF ProcessDies
<1>2. Keeps(rec[r], y)
  BY RecordFacts, ProcessDiesKeeps DEF ProcessDies
<1>3. Booked
  BY OvertakenBooked DEF ProcessDies
<1> HIDE DEF y
<1> QED
  BY <1>1, <1>2, <1>3, KeepsStep DEF ProcessDies, Overtakes

\* A step that changes records and leaves them where they are.
LEMMA ListsSame ==
    ASSUME IInv, created' = created, tmpAbilityMap' = tmpAbilityMap, inputs' = inputs,
           sessionAbilityMap' = sessionAbilityMap, terminateList' = terminateList, Booked,
           rec' \in [UIRecords -> Record], \A q \in UIRecords : RecordOK(q)'
    PROVE  IInv'
<1>1. TypeOK'
  <2>1. /\ calls' \subseteq [op : {"minimize", "close", "recover"}, rec : created']
        /\ \E e \in Environments : inputs' = e.inputs /\ requests' \in 0..e.requests /\ crashes' \in 0..e.crashes
    BY DEF Booked, CallsIn, Budget
  <2> QED
    BY <2>1 DEF IInv, TypeOK
<1>2. PlacedOnce' /\ Places'
  BY DEF IInv, PlacedOnce, Places
<1> QED
  BY <1>1, <1>2 DEF IInv, Booked

LEMMA CompleteBackgroundStep ==
    ASSUME IInv, NEW r \in created, NEW t \in SUBSET rec[r].timers, NEW k \in SUBSET rec[r].tasks,
           "OnAbilityDied" \in rec[r].tasks => "OnAbilityDied" \in k,
           NEW x, x = [rec[r] EXCEPT !.timers = t, !.tasks = k],
           rec[r].state # "BACKGROUNDING" => Keeps(rec[r], x),
           CompleteBackground(r, x)
    PROVE  IInv'
<1>1. Booked
  BY OvertakenBooked DEF CompleteBackground
<1>2. r \in UIRecords /\ rec[r] \in Record /\ Sound(rec[r])
  BY RecordFacts
<1>3. x.state = rec[r].state
  BY <1>2 DEF Record
<1>4. CASE rec[r].state # "BACKGROUNDING"
  <2>1. rec' = [rec EXCEPT ![r] = x]
    BY <1>3, <1>4 DEF CompleteBackground
  <2> QED
    BY <1>1, <1>4, <2>1, KeepsStep DEF CompleteBackground, Overtakes
<1>5. CASE rec[r].state = "BACKGROUNDING"
  <2> DEFINE y == AfterBackground(x)
             after == [rec EXCEPT ![r] = y]
  <2>1. rec' = [q \in UIRecords |->
                  IF q \in terminateList /\ after[q].state = "BACKGROUND"
                  THEN Terminate(after[q]) ELSE after[q]]
    BY <1>3, <1>5 DEF CompleteBackground, AfterBackground
  <2>2. /\ y \in Record /\ Sound(y)
        /\ InUse(rec[r]) => InUse(y)
        /\ Guarded(rec[r]) => Guarded(y)
        /\ Ending(rec[r]) => y.state = "BACKGROUND" /\ Orders(y)
    BY <1>2, <1>5, BackgroundDone
  <2> HIDE DEF y
  <2>3. /\ created' = created /\ tmpAbilityMap' = tmpAbilityMap /\ inputs' = inputs
        /\ sessionAbilityMap' = sessionAbilityMap /\ terminateList' = terminateList
    BY DEF CompleteBackground, Overtakes
  <2>4. ASSUME NEW q \in UIRecords
        PROVE  /\ after[q] \in Record /\ Sound(after[q])
               /\ InSession(q) => InUse(after[q])
               /\ Calm /\ Known(q) => Guarded(after[q])
               /\ Calm /\ q \in terminateList =>
                     Orders(after[q]) /\ (after[q].state = "BACKGROUND" \/ Ending(after[q]))
               /\ q \in tmpAbilityMap => q # r /\ after[q] = rec[q]
    <3>1. CASE q = r
      <4>1. after[q] = y
        BY <1>2, <3>1 DEF IInv, TypeOK
      <4>2. q \notin tmpAbilityMap
        BY <1>5, <3>1, RecordFacts DEF Fresh
      <4> QED
        BY <2>2, <3>1, <4>1, <4>2, RecordFacts
    <3>2. CASE q # r
      <4>1. after[q] = rec[q] /\ rec[q] \in Record /\ RecordOK(q)
        BY <3>2 DEF IInv, TypeOK
      <4> QED
        BY <3>2, <4>1 DEF RecordOK, Ending
    <3> QED
      BY <3>1, <3>2
  <2>5. ASSUME NEW q \in UIRecords
        PROVE  rec'[q] \in Record /\ RecordOK(q)'
    <3>1. InSession(q)' <=> InSession(q)
      BY <2>3 DEF InSession
    <3>2. Known(q) <=> q \in terminateList \/ InSession(q)
      BY DEF Known, InSession
    <3>3. InSession(q) => q \notin terminateList
      BY DEF IInv, PlacedOnce, InSession
    <3>4. q \in tmpAbilityMap => q \notin terminateList /\ Fresh(rec[q])
      BY DEF IInv, PlacedOnce, RecordOK
    <3>5. CASE q \in terminateList /\ after[q].state = "BACKGROUND"
      <4> DEFINE w == after[q]
      <4>1. rec'[q] = Terminate(w)
        BY <2>1, <3>5
      <4>2. w \in Record /\ Sound(w) /\ w.state = "BACKGROUND" /\ (Calm => Orders(w) /\ Guarded(w))
        BY <2>4, <3>2, <3>5
      <4> HIDE DEF w
      <4>3. /\ rec'[q] \in Record /\ Sound(rec'[q])
            /\ Calm => Ending(rec'[q]) /\ Guarded(rec'[q])
        BY <4>1, <4>2, TerminateEnds
      <4> QED
        BY <2>3, <3>1, <3>3, <3>4, <3>5, <4>3, RecordAfter
    <3>6. CASE ~(q \in terminateList /\ after[q].state = "BACKGROUND")
      <4>1. rec'[q] = after[q]
        BY <2>1, <3>6
      <4>2. /\ rec'[q] \in Record /\ Sound(rec'[q])
            /\ q \in tmpAbilityMap => Fresh(rec'[q])
            /\ InSession(q) => InUse(rec'[q])
            /\ Calm /\ q \in terminateList => Ending(rec'[q])
            /\ Calm /\ (q \in terminateList \/ InSession(q)) => Guarded(rec'[q])
        BY <2>4, <3>2, <3>4, <3>6, <4>1
      <4> QED
        BY <2>3, <3>1, <4>2, RecordAfter
    <3> QED
      BY <3>5, <3>6
  <2>6. rec' \in [UIRecords -> Record]
    <3>1. rec' = [q \in UIRecords |-> rec'[q]]
      BY <2>1
    <3> QED
      BY <2>5, <3>1
  <2> QED
    BY <1>1, <2>3, <2>5, <2>6, ListsSame
<1> QED
  BY <1>4, <1>5

LEMMA CompleteTerminateStep ==
    ASSUME IInv, NEW r \in created, NEW t \in SUBSET rec[r].timers, NEW k \in SUBSET rec[r].tasks,
           NEW x, x = [rec[r] EXCEPT !.timers = t, !.tasks = k],
           rec[r].state # "TERMINATING" => Keeps(rec[r], x),
           CompleteTerminate(r, x)
    PROVE  IInv'
<1>1. Booked
  BY OvertakenBooked DEF CompleteTerminate
<1>2. r \in UIRecords /\ rec[r] \in Record /\ Sound(rec[r])
  BY RecordFacts
<1>3. x.state = rec[r].state
  BY <1>2 DEF Record
<1>4. CASE rec[r].state # "TERMINATING"
  <2>1. rec' = [rec EXCEPT ![r] = x] /\ terminateList' = terminateList
    BY <1>3, <1>4 DEF CompleteTerminate
  <2> QED
    BY <1>1, <1>4, <2>1, KeepsStep DEF CompleteTerminate, Overtakes
<1>5. CASE rec[r].state = "TERMINATING"
  <2> DEFINE y == TerminateAbility([x EXCEPT !.watched = FALSE])
  <2>1. rec' = [rec EXCEPT ![r] = y] /\ terminateList' = terminateList \ {r}
    BY <1>3, <1>5 DEF CompleteTerminate
  <2>2. y \in Record /\ Sound(y)
    BY <1>2, CompleteTerminateSound
  <2> HIDE DEF y
  <2>3. /\ created' = created /\ tmpAbilityMap' = tmpAbilityMap /\ inputs' = inputs
        /\ sessionAbilityMap' = sessionAbilityMap
    BY DEF CompleteTerminate, Overtakes
  <2>4. r \notin tmpAbilityMap /\ ~InSession(r)
    BY <1>5, RecordFacts DEF Fresh, InUse
  <2>5. ~InSession(r)' /\ r \notin terminateList'
    BY <2>1, <2>3, <2>4 DEF InSession
  <2> QED
    BY <1>1, <2>1, <2>2, <2>3, <2>4, <2>5, RecordStep DEF Booked
<1> QED
  BY <1>4, <1>5

LEMMA OnAbilityDiedStep ==
    ASSUME IInv, NEW r \in created, "OnAbilityDied" \in rec[r].tasks,
           OnAbilityDied(r, [rec[r] EXCEPT !.tasks = @ \ {"OnAbilityDied"}])
    PROVE  IInv'
<1> DEFINE x == [rec[r] EXCEPT !.tasks = @ \ {"OnAbilityDied"}]
           over == CASE x.state = "INITIAL"       -> {"load"}
                     [] x.state = "FOREGROUNDING" -> {"foreground"}
                     [] x.state = "BACKGROUNDING" -> {"background"}
                     [] OTHER                     -> {}
           y == DispatchTerminate([x EXCEPT !.timers = @ \ over, !.state = "TERMINATING", !.killed = TRUE])
<1>1. rec' = [rec EXCEPT ![r] = y]
  BY DEF OnAbilityDied
<1>2. over \in SUBSET {"load", "foreground", "background"}
  OBVIOUS
<1>3. y \in Record /\ Sound(y) /\ Ending(y) /\ Guarded(y)
  <2> HIDE DEF over
  <2> QED
    BY <1>2, RecordFacts, AbilityDiedEnds
<1>4. Booked
  BY OvertakenBooked DEF OnAbilityDied
<1>5. r \notin tmpAbilityMap
  BY RecordFacts DEF Fresh
<1> HIDE DEF y
<1> QED
  BY <1>1, <1>3, <1>4, <1>5, EndsStep DEF OnAbilityDied, Overtakes

LEMMA TasksStep ==
    ASSUME IInv, NEW r \in created, Tasks(r)
    PROVE  IInv'
<1>1. PICK task \in {"CompleteBackground", "CompleteTerminate", "OnAbilityDied"} : RunTask(r, task)
  BY DEF Tasks
<1> DEFINE k == rec[r].tasks \ {task}
           x == [rec[r] EXCEPT !.tasks = k]
<1>2. r \in UIRecords /\ rec[r] \in Record /\ Sound(rec[r])
  BY RecordFacts
<1>3. x = [rec[r] EXCEPT !.timers = rec[r].timers, !.tasks = k]
  BY <1>2 DEF Record
<1>4. CASE task = "CompleteBackground"
  <2>1. CompleteBackground(r, x)
    BY <1>1, <1>4 DEF RunTask
  <2>2. rec[r].state # "BACKGROUNDING" => Keeps(rec[r], x)
    BY <1>2, <1>3, <1>4, EventKeeps
  <2> HIDE DEF x
  <2> QED
    BY <1>3, <1>4, <2>1, <2>2, CompleteBackgroundStep
<1>5. CASE task = "CompleteTerminate"
  <2>1. CompleteTerminate(r, x)
    BY <1>1, <1>5 DEF RunTask
  <2>2. rec[r].state # "TERMINATING" => Keeps(rec[r], x)
    BY <1>2, <1>3, <1>5, EventKeeps
  <2> HIDE DEF x
  <2> QED
    BY <1>3, <1>5, <2>1, <2>2, CompleteTerminateStep
<1>6. CASE task = "OnAbilityDied"
  <2>1. OnAbilityDied(r, [rec[r] EXCEPT !.tasks = @ \ {"OnAbilityDied"}]) /\ "OnAbilityDied" \in rec[r].tasks
    BY <1>1, <1>6 DEF RunTask
  <2> QED
    BY <2>1, OnAbilityDiedStep
<1> QED
  BY <1>4, <1>5, <1>6

LEMMA OnTimeOutStep ==
    ASSUME IInv, NEW r \in created, NEW timer \in {"load", "foreground"}, OnTimeOut(r, timer)
    PROVE  IInv'
<1>1. r \in UIRecords /\ rec[r] \in Record /\ Sound(rec[r])
  BY RecordFacts
<1>2. Booked
  BY OvertakenBooked DEF OnTimeOut
<1>3. /\ created' = created /\ tmpAbilityMap' = tmpAbilityMap /\ inputs' = inputs
      /\ terminateList' = terminateList
  BY DEF OnTimeOut, Overtakes
<1>4. Expired(r, timer) = [rec[r] EXCEPT !.timers = @ \ {timer}]
  BY DEF Expired
<1>5. CASE Known(r) /\ (timer = "foreground" => rec[r].state = "FOREGROUNDING")
  <2> DEFINE y == [Expired(r, timer) EXCEPT !.killed = TRUE]
  <2>1. rec' = [rec EXCEPT ![r] = y] /\ sessionAbilityMap' = EraseAbilityRecord(r)
    BY <1>5 DEF OnTimeOut
  <2>2. /\ y \in Record /\ Sound(y)
        /\ Ending(rec[r]) => Ending(y)
        /\ Guarded(rec[r]) => Guarded(y)
    BY <1>1, <1>4, TimeOutEnds
  <2> HIDE DEF y
  <2>3. ~InSession(r)' /\ r \notin tmpAbilityMap
    BY <1>5, <2>1, RecordFacts, EraseShape DEF IInv
  <2>4. Calm /\ r \in terminateList => Ending(y) /\ Guarded(y)
    BY <1>5, <2>2, RecordFacts
  <2> QED
    BY <1>2, <1>3, <2>1, <2>2, <2>3, <2>4, RecordStep DEF Booked
<1>6. CASE ~(Known(r) /\ (timer = "foreground" => rec[r].state = "FOREGROUNDING"))
  <2> DEFINE y == Expired(r, timer)
  <2>1. rec' = [rec EXCEPT ![r] = y] /\ sessionAbilityMap' = sessionAbilityMap
    BY <1>6 DEF OnTimeOut
  <2>2. CASE ~Known(r)
    <3>1. y \in Record /\ Sound(y) /\ (Fresh(rec[r]) => Fresh(y))
      BY <1>1, <1>4, TimeOutForgotten
    <3> HIDE DEF y
    <3> QED
      BY <1>2, <1>3, <2>1, <2>2, <3>1, UnknownStep
  <2>3. CASE Known(r)
    <3> DEFINE t == rec[r].timers \ {"foreground"}
    <3>1. timer = "foreground" /\ rec[r].state # "FOREGROUNDING"
      BY <1>6, <2>3
    <3>2. y = [rec[r] EXCEPT !.timers = t, !.tasks = rec[r].tasks]
      BY <1>1, <1>4, <3>1 DEF Record
    <3>3. t \in SUBSET rec[r].timers /\ \A e : e # "foreground" /\ e \in rec[r].timers => e \in t
      OBVIOUS
    <3> HIDE DEF t, y
    <3>4. Keeps(rec[r], y)
      BY <1>1, <3>1, <3>2, <3>3, EventKeeps
    <3> QED
      BY <1>2, <1>3, <2>1, <3>4, KeepsStep
  <2> QED
    BY <2>2, <2>3
<1> QED
  BY <1>5, <1>6

LEMMA TimeoutsStep ==
    ASSUME IInv, NEW r \in created, Timeouts(r)
    PROVE  IInv'
<1>1. r \in UIRecords /\ rec[r] \in Record /\ Sound(rec[r])
  BY RecordFacts
<1>2. CASE BackgroundTimeout(r)
  <2> DEFINE t == rec[r].timers \ {"background"}
             x == Expired(r, "background")
  <2>1. x = [rec[r] EXCEPT !.timers = t, !.tasks = rec[r].tasks]
    BY <1>1 DEF Expired, Record
  <2>2. t \in SUBSET rec[r].timers /\ \A e : e # "background" /\ e \in rec[r].timers => e \in t
    OBVIOUS
  <2> HIDE DEF t, x
  <2>3. rec[r].state # "BACKGROUNDING" => Keeps(rec[r], x)
    BY <1>1, <2>1, <2>2, EventKeeps
  <2>4. CompleteBackground(r, x)
    BY <1>2 DEF BackgroundTimeout, x
  <2> QED
    BY <2>1, <2>2, <2>3, <2>4, CompleteBackgroundStep
<1>3. CASE TerminateTimeout(r)
  <2> DEFINE y == [Expired(r, "terminate") EXCEPT !.timers = @ \cup {"kill"}]
  <2>1. rec' = [rec EXCEPT ![r] = y]
    BY <1>3 DEF TerminateTimeout
  <2>2. Keeps(rec[r], y)
    BY <1>1, TerminateTimeoutKeeps DEF Expired
  <2>3. Booked
    BY <1>3, OvertakenBooked DEF TerminateTimeout
  <2> HIDE DEF y
  <2> QED
    BY <1>3, <2>1, <2>2, <2>3, KeepsStep DEF TerminateTimeout, Overtakes
<1>4. CASE KillTimeout(r)
  <2> DEFINE t == rec[r].timers \ {"kill"}
             x == Expired(r, "kill")
  <2>1. x = [rec[r] EXCEPT !.timers = t, !.tasks = rec[r].tasks]
    BY <1>1 DEF Expired, Record
  <2>2. t \in SUBSET rec[r].timers /\ \A e : e # "kill" /\ e \in rec[r].timers => e \in t
    OBVIOUS
  <2> HIDE DEF t, x
  <2>3. rec[r].state # "TERMINATING" => Keeps(rec[r], x)
    BY <1>1, <2>1, <2>2, EventKeeps
  <2>4. CompleteTerminate(r, x)
    BY <1>4 DEF KillTimeout, x
  <2> QED
    BY <2>1, <2>2, <2>3, <2>4, CompleteTerminateStep
<1> QED
  BY <1>2, <1>3, <1>4, OnTimeOutStep DEF Timeouts

\* A record gets its session.
LEMMA SessionStep ==
    ASSUME IInv, NEW r \in UIRecords, ~InSession(r), r \notin terminateList,
           NEW s \in Sessions, sessionAbilityMap[s] = NoRecord,
           NEW y \in Record, Sound(y), InUse(y), Guarded(y), rec' = [rec EXCEPT ![r] = y],
           created' = created \cup {r}, sessionAbilityMap' = [sessionAbilityMap EXCEPT ![s] = r],
           tmpAbilityMap' = tmpAbilityMap \ {r}, terminateList' = terminateList, inputs' = inputs, Booked
    PROVE  IInv'
<1>1. r # NoRecord /\ NoRecord \notin created
  BY UIAssumption DEF IInv, TypeOK
<1>2. /\ sessionAbilityMap' \in [Sessions -> created' \cup {NoRecord}]
      /\ sessionAbilityMap'[s] = r
      /\ \A q \in Sessions : q # s => sessionAbilityMap'[q] = sessionAbilityMap[q] /\ sessionAbilityMap[q] # r
  BY DEF IInv, Places, InSession
<1>3. created' \subseteq UIRecords
  BY DEF IInv, TypeOK
<1>4. TypeOK'
  <2>1. /\ calls' \subseteq [op : {"minimize", "close", "recover"}, rec : created']
        /\ \E e \in Environments : inputs' = e.inputs /\ requests' \in 0..e.requests /\ crashes' \in 0..e.crashes
    BY DEF Booked, CallsIn, Budget
  <2>2. rec' \in [UIRecords -> Record]
    BY DEF IInv, TypeOK
  <2>3. sessionAbilityMap' \in [Sessions -> UIRecords \cup {NoRecord}]
    BY <1>2, <1>3
  <2>4. tmpAbilityMap' \subseteq created' /\ terminateList' \subseteq created'
    BY DEF IInv, TypeOK
  <2> QED
    BY <1>3, <2>1, <2>2, <2>3, <2>4 DEF TypeOK
<1>5. PlacedOnce'
  <2>1. \A p, q \in Sessions :
           sessionAbilityMap'[p] = sessionAbilityMap'[q] => p = q \/ sessionAbilityMap'[p] = NoRecord
    BY <1>2 DEF IInv, PlacedOnce
  <2>2. \A q \in Sessions : sessionAbilityMap'[q] \notin terminateList' \cup tmpAbilityMap'
    BY <1>2 DEF IInv, PlacedOnce
  <2>3. terminateList' \cap tmpAbilityMap' = {}
    BY DEF IInv, PlacedOnce
  <2> QED
    BY <2>1, <2>2, <2>3 DEF PlacedOnce
<1>6. Places'
  BY <1>2 DEF IInv, Places
<1>7. ASSUME NEW q \in UIRecords PROVE RecordOK(q)'
  <2>1. CASE q = r
    <3>1. rec'[r] = y
      BY DEF IInv, TypeOK
    <3>2. RecordOK(r)'
      BY <3>1, RecordAfter
    <3> QED
      BY <2>1, <3>2
  <2>2. CASE q # r
    <3>1. rec'[q] = rec[q] /\ RecordOK(q)
      BY <2>2 DEF IInv, TypeOK
    <3>2. InSession(q)' => InSession(q)
      BY <1>2, <2>2 DEF InSession
    <3> QED
      BY <3>1, <3>2, RecordSame
  <2> QED
    BY <2>1, <2>2
<1> QED
  BY <1>4, <1>5, <1>6, <1>7 DEF IInv, Booked

\* A record is made for a call and waits for its session.
LEMMA CallStep ==
    ASSUME IInv, NEW r \in UIRecords \ created, "byCall" \in inputs, tmpAbilityMap = {},
           NEW y \in Record, Sound(y), Fresh(y), rec' = [rec EXCEPT ![r] = y],
           created' = created \cup {r}, sessionAbilityMap' = sessionAbilityMap,
           tmpAbilityMap' = {r}, terminateList' = terminateList, inputs' = inputs, Booked
    PROVE  IInv'
<1>1. r # NoRecord /\ r \notin terminateList /\ \A s \in Sessions : sessionAbilityMap[s] # r
  BY UIAssumption DEF IInv, TypeOK, Places
<1>2. TypeOK'
  <2>1. /\ calls' \subseteq [op : {"minimize", "close", "recover"}, rec : created']
        /\ \E e \in Environments : inputs' = e.inputs /\ requests' \in 0..e.requests /\ crashes' \in 0..e.crashes
    BY DEF Booked, CallsIn, Budget
  <2>2. rec' \in [UIRecords -> Record] /\ sessionAbilityMap' \in [Sessions -> UIRecords \cup {NoRecord}]
    BY DEF IInv, TypeOK
  <2>3. created' \subseteq UIRecords /\ tmpAbilityMap' \subseteq created' /\ terminateList' \subseteq created'
    BY DEF IInv, TypeOK
  <2> QED
    BY <2>1, <2>2, <2>3 DEF TypeOK
<1>3. PlacedOnce'
  BY <1>1 DEF IInv, PlacedOnce
<1>4. Places'
  BY DEF IInv, Places
<1>5. ASSUME NEW q \in UIRecords PROVE RecordOK(q)'
  <2>1. CASE q = r
    <3>1. rec'[r] = y
      BY DEF IInv, TypeOK
    <3>2. ~InSession(r)'
      BY <1>1 DEF InSession
    <3>3. RecordOK(r)'
      BY <1>1, <3>1, <3>2, RecordAfter
    <3> QED
      BY <2>1, <3>3
  <2>2. CASE q # r
    <3>1. rec'[q] = rec[q] /\ RecordOK(q)
      BY <2>2 DEF IInv, TypeOK
    <3>2. InSession(q)' => InSession(q)
      BY DEF InSession
    <3> QED
      BY <2>2, <3>1, <3>2, RecordSame
  <2> QED
    BY <2>1, <2>2
<1> QED
  BY <1>2, <1>3, <1>4, <1>5 DEF IInv, Booked

\* A step that changes no record and puts none anywhere.
LEMMA NoRecordStep ==
    ASSUME IInv, rec' = rec, created' = created, sessionAbilityMap' = sessionAbilityMap,
           tmpAbilityMap' \subseteq tmpAbilityMap, terminateList' = terminateList, inputs' = inputs, Booked
    PROVE  IInv'
<1>1. TypeOK'
  <2>1. /\ calls' \subseteq [op : {"minimize", "close", "recover"}, rec : created']
        /\ \E e \in Environments : inputs' = e.inputs /\ requests' \in 0..e.requests /\ crashes' \in 0..e.crashes
    BY DEF Booked, CallsIn, Budget
  <2> QED
    BY <2>1 DEF IInv, TypeOK
<1>2. PlacedOnce' /\ Places'
  BY DEF IInv, PlacedOnce, Places
<1>3. ASSUME NEW q \in UIRecords PROVE RecordOK(q)'
  <2>1. InSession(q)' => InSession(q)
    BY DEF InSession
  <2> QED
    BY <2>1, RecordSame DEF IInv
<1> QED
  BY <1>1, <1>2, <1>3 DEF IInv, Booked

LEMMA NewRecordsShape ==
    ASSUME IInv, NEW r \in NewRecords
    PROVE  r \in UIRecords \ created /\ ~InSession(r) /\ r \notin terminateList /\ r \notin tmpAbilityMap
<1>1. created # UIRecords /\ r = CHOOSE q \in UIRecords \ created : TRUE
  BY DEF NewRecords
<1>2. r \in UIRecords \ created
  BY <1>1 DEF IInv, TypeOK
<1> QED
  BY <1>2, UIAssumption DEF IInv, TypeOK, Places, InSession

LEMMA StartUIAbilityStep ==
    ASSUME IInv, NEW s \in Sessions, NEW w \in AnyWant, StartUIAbility(s, w)
    PROVE  IInv'
<1>1. /\ tmpAbilityMap' = tmpAbilityMap /\ terminateList' = terminateList /\ inputs' = inputs
      /\ crashes' = crashes /\ Request /\ Overtakes /\ (w # NoWant => "newWant" \in inputs)
  BY DEF StartUIAbility, Overtakes
<1>2. CASE /\ sessionAbilityMap[s] = NoRecord /\ tmpAbilityMap = {}
           /\ \E r \in NewRecords :
                /\ created' = created \cup {r}
                /\ sessionAbilityMap' = [sessionAbilityMap EXCEPT ![s] = r]
                /\ rec' = [rec EXCEPT ![r] =
                             LoadAbility([NewRecord(w, "no", "FOREGROUND") EXCEPT !.pending = "FOREGROUND"])]
  <2> DEFINE y == LoadAbility([NewRecord(w, "no", "FOREGROUND") EXCEPT !.pending = "FOREGROUND"])
  <2>1. PICK r \in NewRecords : /\ created' = created \cup {r}
                                /\ sessionAbilityMap' = [sessionAbilityMap EXCEPT ![s] = r]
                                /\ rec' = [rec EXCEPT ![r] = y]
    BY <1>2
  <2>2. y \in Record /\ Sound(y) /\ InUse(y) /\ Guarded(y)
    BY NewStart
  <2>3. Booked
    BY <1>1, <2>1, OvertakenBooked
  <2>4. tmpAbilityMap' = tmpAbilityMap \ {r}
    BY <1>1, <1>2
  <2>5. r \in UIRecords \ created /\ ~InSession(r) /\ r \notin terminateList
    BY NewRecordsShape
  <2> HIDE DEF y
  <2> QED
    BY <1>1, <1>2, <2>1, <2>2, <2>3, <2>4, <2>5, SessionStep
<1>3. CASE /\ \E r \in tmpAbilityMap :
                rec' = [rec EXCEPT ![r] = StartRecord([@ EXCEPT !.pending = "FOREGROUND"], w)]
           /\ created' = created /\ sessionAbilityMap' = sessionAbilityMap
  <2>1. PICK r \in tmpAbilityMap :
            rec' = [rec EXCEPT ![r] = StartRecord([rec[r] EXCEPT !.pending = "FOREGROUND"], w)]
    BY <1>3
  <2> DEFINE y == StartRecord([rec[r] EXCEPT !.pending = "FOREGROUND"], w)
  <2>2. r \in created
    BY DEF IInv, TypeOK
  <2>3. Sound(rec[r]) /\ rec[r] \in Record /\ Fresh(rec[r]) /\ ~Known(r)
    BY <2>2, RecordFacts
  <2>4. y \in Record /\ Sound(y) /\ Fresh(y)
    BY <1>1, <2>3, StartFresh
  <2>5. Booked
    BY <1>1, <1>3, OvertakenBooked
  <2>6. rec' = [rec EXCEPT ![r] = y]
    BY <2>1
  <2> HIDE DEF y
  <2> QED
    BY <1>1, <1>3, <2>2, <2>3, <2>4, <2>5, <2>6, UnknownStep
<1>4. CASE /\ sessionAbilityMap[s] # NoRecord
           /\ rec' = [rec EXCEPT ![sessionAbilityMap[s]] = StartRecord(@, w)]
           /\ created' = created /\ sessionAbilityMap' = sessionAbilityMap
  <2> DEFINE r == sessionAbilityMap[s]
             y == StartRecord(rec[r], w)
  <2>1. r \in created /\ InSession(r)
    BY <1>4 DEF IInv, Places, InSession
  <2>2. rec' = [rec EXCEPT ![r] = y]
    BY <1>4
  <2> HIDE DEF r
  <2>3. Sound(rec[r]) /\ rec[r] \in Record /\ InUse(rec[r]) /\ (Calm => Guarded(rec[r])) /\ r \notin terminateList
        /\ r \notin tmpAbilityMap
    BY <2>1, RecordFacts
  <2>4. y \in Record /\ Sound(y) /\ InUse(y) /\ (Guarded(rec[r]) => Guarded(y))
    BY <1>1, <2>3, StartRecordKeeps
  <2>5. Booked
    BY <1>1, <1>4, OvertakenBooked
  <2> HIDE DEF y
  <2> QED
    BY <1>1, <1>4, <2>1, <2>2, <2>3, <2>4, <2>5, RecordStep DEF Booked
<1> QED
  BY <1>2, <1>3, <1>4 DEF StartUIAbility

\* A request to come forward for the record of a session.
LEMMA ForegroundStep ==
    ASSUME IInv, NEW s \in Sessions, sessionAbilityMap[s] # NoRecord, ~Quiet,
           NEW r, r = sessionAbilityMap[s], NEW f \in BOOLEAN,
           rec' = [rec EXCEPT ![r] = ForegroundRequest([rec[r] EXCEPT !.isNewWant = f])],
           created' = created, sessionAbilityMap' = sessionAbilityMap, tmpAbilityMap' = tmpAbilityMap,
           terminateList' = terminateList, crashes' = crashes, Request, Overtakes
    PROVE  IInv'
<1> DEFINE y == ForegroundRequest([rec[r] EXCEPT !.isNewWant = f])
<1>1. r \in created /\ InSession(r)
  BY DEF IInv, Places, InSession
<1>2. /\ Sound(rec[r]) /\ rec[r] \in Record /\ InUse(rec[r]) /\ (Calm => Guarded(rec[r]))
      /\ r \notin terminateList /\ r \notin tmpAbilityMap
  BY <1>1, RecordFacts
<1>3. y \in Record /\ Sound(y) /\ InUse(y) /\ (Guarded(rec[r]) => Guarded(y))
  BY <1>2, ShowKeeps
<1>4. Booked
  BY OvertakenBooked
<1> HIDE DEF y
<1> QED
  BY <1>1, <1>2, <1>3, <1>4, RecordStep DEF Booked, Overtakes, y

LEMMA ChangeVisibilityStep ==
    ASSUME IInv, NEW s \in Sessions, NEW f \in BOOLEAN, ChangeUIAbilityVisibilityBySCB(s, f)
    PROVE  IInv'
<1> DEFINE r == sessionAbilityMap[s]
<1>1. ~Quiet /\ sessionAbilityMap[s] # NoRecord /\ Request /\ Overtakes
  BY DEF ChangeUIAbilityVisibilityBySCB, Quiet
<1>2. rec' = [rec EXCEPT ![r] = ForegroundRequest([rec[r] EXCEPT !.isNewWant = f])]
  BY DEF ChangeUIAbilityVisibilityBySCB
<1>3. /\ created' = created /\ sessionAbilityMap' = sessionAbilityMap /\ tmpAbilityMap' = tmpAbilityMap
      /\ terminateList' = terminateList /\ crashes' = crashes
  BY DEF ChangeUIAbilityVisibilityBySCB
<1>4. r = sessionAbilityMap[s]
  OBVIOUS
<1> HIDE DEF r
<1> QED
  BY <1>1, <1>2, <1>3, <1>4, ForegroundStep

LEMMA CallAbilityLockedStep ==
    ASSUME IInv, NEW s \in Sessions, NEW to \in {"FOREGROUND", "BACKGROUND"}, CallAbilityLocked(s, to)
    PROVE  IInv'
<1>1. /\ "byCall" \in inputs /\ inputs' = inputs /\ sessionAbilityMap' = sessionAbilityMap
      /\ terminateList' = terminateList /\ crashes' = crashes /\ Overtakes /\ Request
  BY DEF CallAbilityLocked, Overtakes
<1>2. CASE /\ tmpAbilityMap = {}
           /\ \E r \in NewRecords : /\ created' = created \cup {r}
                                    /\ tmpAbilityMap' = {r}
                                    /\ rec' = [rec EXCEPT ![r] = NewRecord(NoWant, to, to)]
  <2> DEFINE y == NewRecord(NoWant, to, to)
  <2>1. PICK r \in NewRecords : /\ created' = created \cup {r}
                                /\ tmpAbilityMap' = {r}
                                /\ rec' = [rec EXCEPT ![r] = y]
    BY <1>2
  <2>2. y \in Record /\ Sound(y) /\ Fresh(y)
    BY <1>1, NewCall
  <2>3. r \in UIRecords \ created
    BY NewRecordsShape
  <2>4. Booked
    BY <1>1, <2>1, <2>3, OvertakenBooked
  <2> HIDE DEF y
  <2> QED
    BY <1>1, <1>2, <2>1, <2>2, <2>3, <2>4, CallStep
<1>3. CASE /\ sessionAbilityMap[s] # NoRecord
           /\ rec' = [rec EXCEPT ![sessionAbilityMap[s]] = ForegroundRequest(@)]
           /\ created' = created /\ tmpAbilityMap' = tmpAbilityMap
  <2> DEFINE r == sessionAbilityMap[s]
             f == rec[r].isNewWant
  <2>1. rec' = [rec EXCEPT ![r] = ForegroundRequest(rec[r])]
    BY <1>3
  <2>2. r = sessionAbilityMap[s] /\ r \in created
    BY <1>3 DEF IInv, Places
  <2> HIDE DEF r
  <2>3. rec[r] \in Record
    BY <2>2, RecordFacts
  <2>4. f \in BOOLEAN /\ rec[r] = [rec[r] EXCEPT !.isNewWant = f]
    BY <2>3 DEF Record
  <2> HIDE DEF f
  <2>5. rec' = [rec EXCEPT ![r] = ForegroundRequest([rec[r] EXCEPT !.isNewWant = f])]
    BY <2>1, <2>4
  <2>6. ~Quiet
    BY <1>1 DEF Quiet
  <2> QED
    BY <1>1, <1>3, <2>2, <2>4, <2>5, <2>6, ForegroundStep
<1> QED
  BY <1>2, <1>3 DEF CallAbilityLocked

LEMMA CallUIAbilityBySCBStep ==
    ASSUME IInv, NEW s \in Sessions, CallUIAbilityBySCB(s)
    PROVE  IInv'
<1>1. PICK r \in tmpAbilityMap :
          /\ tmpAbilityMap' = tmpAbilityMap \ {r}
          /\ IF sessionAbilityMap[s] # NoRecord
             THEN rec' = rec /\ sessionAbilityMap' = sessionAbilityMap
             ELSE /\ sessionAbilityMap' = [sessionAbilityMap EXCEPT ![s] = r]
                  /\ rec' = [rec EXCEPT ![r] = LoadAbility([rec[r] EXCEPT !.pending = rec[r].byCall])]
  BY DEF CallUIAbilityBySCB
<1>2. /\ created' = created /\ terminateList' = terminateList /\ inputs' = inputs
      /\ requests' = requests /\ crashes' = crashes /\ Overtakes
  BY DEF CallUIAbilityBySCB, Overtakes
<1>3. Booked
  BY <1>1, <1>2, OvertakenBooked
<1>4. CASE sessionAbilityMap[s] # NoRecord
  BY <1>1, <1>2, <1>3, <1>4, NoRecordStep
<1>5. CASE sessionAbilityMap[s] = NoRecord
  <2> DEFINE y == LoadAbility([rec[r] EXCEPT !.pending = rec[r].byCall])
  <2>1. r \in created /\ "byCall" \in inputs
    BY DEF IInv, TypeOK, Places
  <2>2. /\ r \in UIRecords /\ rec[r] \in Record /\ Sound(rec[r]) /\ Fresh(rec[r])
        /\ ~InSession(r) /\ r \notin terminateList
    BY <2>1, RecordFacts
  <2>3. y \in Record /\ Sound(y) /\ InUse(y) /\ Guarded(y)
    BY <2>1, <2>2, LoadFresh
  <2>4. /\ sessionAbilityMap' = [sessionAbilityMap EXCEPT ![s] = r]
        /\ rec' = [rec EXCEPT ![r] = y]
        /\ created' = created \cup {r}
    BY <1>1, <1>2, <1>5, <2>1
  <2> HIDE DEF y
  <2> QED
    BY <1>1, <1>2, <1>3, <1>5, <2>2, <2>3, <2>4, SessionStep
<1> QED
  BY <1>4, <1>5

LEMMA NotifyStartupExceptionStep ==
    ASSUME IInv, NotifyStartupExceptionBySCB
    PROVE  IInv'
<1>1. Booked
  BY OvertakenBooked DEF NotifyStartupExceptionBySCB
<1> QED
  BY <1>1, NoRecordStep DEF NotifyStartupExceptionBySCB, Overtakes

LEMMA FindRecordStep ==
    ASSUME IInv, NEW s \in Sessions, NEW op \in {"minimize", "close", "recover"},
           op = "recover" => "disown" \in inputs, FindRecord(s, op)
    PROVE  IInv'
<1> DEFINE c == [op |-> op, rec |-> sessionAbilityMap[s]]
<1>1. /\ rec' = rec /\ created' = created /\ sessionAbilityMap' = sessionAbilityMap
      /\ tmpAbilityMap' = tmpAbilityMap /\ terminateList' = terminateList /\ inputs' = inputs
      /\ crashes' = crashes /\ Request /\ calls' = calls \cup {c}
      /\ "late" \notin inputs => \A d \in calls : d.op = "minimize"
  BY DEF FindRecord, LateCalls
<1>2. /\ c.rec \in created /\ c.rec \notin tmpAbilityMap /\ InSession(c.rec) /\ c.op = op
      /\ c \in [op : {"minimize", "close", "recover"}, rec : created]
  BY DEF FindRecord, IInv, Places, PlacedOnce, InSession
<1>3. CallsOK /\ CallsIn(created) /\ Budget
  BY DEF IInv, TypeOK, CallsIn, Budget
<1> HIDE DEF c
<1>4. CallsIn(created)'
  BY <1>1, <1>2, <1>3 DEF CallsIn
<1>5. Budget'
  BY <1>1, <1>3, BudgetStep
<1>6. CallsOK'
  <2>1. \A d \in calls' : d.rec \notin tmpAbilityMap' /\ (d.op = "recover" => "disown" \in inputs')
    BY <1>1, <1>2, <1>3 DEF CallsOK
  <2>2. ASSUME "late" \notin inputs'
        PROVE  /\ \A d \in calls' : d.op # "minimize" => InSession(d.rec)'
               /\ \A d, e \in calls' : d.op # "minimize" /\ e.op # "minimize" => d = e
    <3>1. \A d \in calls' : d.op # "minimize" => d = c
      BY <1>1, <2>2
    <3>2. \E t \in Sessions : sessionAbilityMap'[t] = c.rec
      BY <1>1, <1>2 DEF InSession
    <3> QED
      BY <3>1, <3>2 DEF InSession
  <2> QED
    BY <2>1, <2>2 DEF CallsOK
<1>7. Booked
  BY <1>4, <1>5, <1>6 DEF Booked
<1> QED
  BY <1>1, <1>7, NoRecordStep

\* What the requests still waiting are once one of them got the lock.
LEMMA CallGranted ==
    ASSUME IInv, NEW c \in calls, calls' = calls \ {c}, created' = created, inputs' = inputs,
           tmpAbilityMap' = tmpAbilityMap, requests' = requests, crashes' = crashes,
           c.op = "minimize" => sessionAbilityMap' = sessionAbilityMap
    PROVE  Booked /\ c.rec \in created /\ c.rec \notin tmpAbilityMap
<1>1. CallsOK /\ CallsIn(created) /\ Budget
  BY DEF IInv, TypeOK, CallsIn, Budget
<1>2. CallsIn(created)'
  BY <1>1 DEF CallsIn
<1>3. Budget'
  BY <1>1, BudgetStep
<1>4. CallsOK'
  <2>1. \A d \in calls' : d.rec \notin tmpAbilityMap' /\ (d.op = "recover" => "disown" \in inputs')
    BY <1>1 DEF CallsOK
  <2>2. ASSUME "late" \notin inputs'
        PROVE  /\ \A d \in calls' : d.op # "minimize" => InSession(d.rec)'
               /\ \A d, e \in calls' : d.op # "minimize" /\ e.op # "minimize" => d = e
    <3>1. \A d, e \in calls : d.op # "minimize" /\ e.op # "minimize" => d = e
      BY <1>1, <2>2 DEF CallsOK
    <3>2. CASE c.op = "minimize"
      <4>1. \A d \in calls : d.op # "minimize" => InSession(d.rec)
        BY <1>1, <2>2 DEF CallsOK
      <4> QED
        BY <3>1, <3>2, <4>1 DEF InSession
    <3>3. CASE c.op # "minimize"
      BY <3>1, <3>3
    <3> QED
      BY <3>2, <3>3
  <2> QED
    BY <2>1, <2>2 DEF CallsOK
<1>5. c.rec \in created /\ c.rec \notin tmpAbilityMap
  BY <1>1 DEF CallsOK, CallsIn
<1> QED
  BY <1>2, <1>3, <1>4, <1>5 DEF Booked

LEMMA MinimizeUIAbilityStep ==
    ASSUME IInv, NEW c \in calls, MinimizeUIAbility(c)
    PROVE  IInv'
<1> DEFINE r == c.rec
           x == [rec[r] EXCEPT !.asked = NoWant, !.goal = "BACKGROUND"]
           y == CASE x.pending # "INITIAL" -> [x EXCEPT !.pending = "BACKGROUND"]
                  [] x.pending = "INITIAL" /\ x.state = "FOREGROUND"
                                           -> MoveToBackground([x EXCEPT !.pending = "BACKGROUND"])
                  [] OTHER                 -> x
<1>1. /\ created' = created /\ sessionAbilityMap' = sessionAbilityMap /\ tmpAbilityMap' = tmpAbilityMap
      /\ terminateList' = terminateList /\ inputs' = inputs /\ requests' = requests /\ crashes' = crashes
      /\ calls' = calls \ {c}
  BY DEF MinimizeUIAbility
<1>2. Booked /\ r \in created
  BY <1>1, CallGranted
<1>3. rec' = [rec EXCEPT ![r] = y]
  BY DEF MinimizeUIAbility
<1> HIDE DEF r
<1>4. Keeps(rec[r], y)
  BY <1>2, RecordFacts, MinimizeKeeps
<1> HIDE DEF y
<1> QED
  BY <1>1, <1>2, <1>3, <1>4, KeepsStep

LEMMA CloseUIAbilityStep ==
    ASSUME IInv, NEW c \in calls, CloseUIAbility(c)
    PROVE  IInv'
<1> DEFINE r == c.rec
           x == [rec[r] EXCEPT !.closing = TRUE, !.goal = "closed"]
           y == Closed(rec[r], c.op)
<1>1. /\ created' = created /\ tmpAbilityMap' = tmpAbilityMap
      /\ inputs' = inputs /\ requests' = requests /\ crashes' = crashes
      /\ calls' = calls \ {c} /\ c.op \in {"close", "recover"}
  BY DEF CloseUIAbility
<1>2. Booked /\ r \in created /\ r \notin tmpAbilityMap
  BY <1>1, CallGranted
<1>3. rec[r] \in Record /\ Sound(rec[r])
  BY <1>2, RecordFacts
<1>4. x.state = rec[r].state
  BY <1>3 DEF Record
<1>5. Calm => c.op = "close" /\ InSession(r)
  BY <1>1 DEF IInv, CallsOK, Calm
<1>6. Calm => Guarded(rec[r]) /\ InUse(rec[r])
  BY <1>2, <1>5, RecordFacts
<1>7. CASE rec[r].closing /\ ~IsForeground(rec[r])
  <2>1. rec' = rec /\ sessionAbilityMap' = sessionAbilityMap /\ terminateList' = terminateList
    BY <1>7 DEF CloseUIAbility
  <2> QED
    BY <1>1, <1>2, <2>1, NoRecordStep
<1>8. CASE ~(rec[r].closing /\ ~IsForeground(rec[r]))
  <2>1. /\ sessionAbilityMap' = EraseAbilityRecord(r)
        /\ terminateList' = IF rec[r].state = "INITIAL" THEN terminateList \ {r} ELSE terminateList \cup {r}
    BY <1>4, <1>8 DEF CloseUIAbility
  <2>2. rec' = [rec EXCEPT ![r] = y]
    BY <1>8 DEF CloseUIAbility, Closed
  <2> HIDE DEF r
  <2>3. /\ y \in Record /\ Sound(y)
        /\ rec[r].state # "INITIAL" /\ c.op = "close" /\ Guarded(rec[r]) /\ InUse(rec[r])
              => Ending(y) /\ Guarded(y)
    BY <1>3, CloseRequestEnds
  <2> HIDE DEF y
  <2>4. CASE rec[r].state # "INITIAL"
    BY <1>1, <1>2, <1>5, <1>6, <2>1, <2>2, <2>3, <2>4, EndsStep
  <2>5. CASE rec[r].state = "INITIAL"
    <3>1. ~InSession(r)'
      BY <1>2, <2>1, RecordFacts, EraseShape DEF IInv
    <3>2. terminateList' = terminateList \ {r}
      BY <2>1, <2>5
    <3> QED
      BY <1>1, <1>2, <2>1, <2>2, <2>3, <3>1, <3>2, RecordStep DEF Booked
  <2> QED
    BY <2>4, <2>5
<1> QED
  BY <1>7, <1>8
-------------------------------------------------------------------------------
LEMMA InitIInv == Init => IInv
<1> SUFFICES ASSUME Init PROVE IInv
  OBVIOUS
<1> DEFINE n == NewRecord(NoWant, "no", "closed")
<1>1. n \in Record
  BY DEF NewRecord, Record, States, Pendings, AnyWant
<1>2. Sound(n)
  BY DEF NewRecord, Sound
<1>3. PICK e \in Environments : inputs = e.inputs /\ requests = e.requests /\ crashes = e.crashes
  BY DEF Init
<1>4. e.requests \in Nat /\ e.crashes \in Nat
  BY UIAssumption
<1>5. requests \in 0..e.requests /\ crashes \in 0..e.crashes
  BY <1>3, <1>4
<1> HIDE DEF n
<1>6. rec = [r \in UIRecords |-> n]
  BY DEF Init, n
<1>7. TypeOK
  BY <1>1, <1>3, <1>5, <1>6 DEF Init, TypeOK
<1>8. PlacedOnce /\ Places /\ CallsOK
  BY DEF Init, PlacedOnce, Places, CallsOK
<1>9. ASSUME NEW r \in UIRecords PROVE RecordOK(r)
  <2>1. ~InSession(r) /\ ~Known(r) /\ r \notin tmpAbilityMap /\ r \notin terminateList
    BY UIAssumption DEF Init, InSession, Known
  <2>2. rec[r] = n
    BY <1>6
  <2> QED
    BY <1>2, <2>1, <2>2 DEF RecordOK
<1> QED
  BY <1>7, <1>8, <1>9 DEF IInv

LEMMA NextIInv == IInv /\ [Next]_vars => IInv'
<1> SUFFICES ASSUME IInv, [Next]_vars PROVE IInv'
  OBVIOUS
<1>1. CASE UNCHANGED vars
  <2>1. /\ rec' = rec /\ created' = created /\ sessionAbilityMap' = sessionAbilityMap
        /\ tmpAbilityMap' = tmpAbilityMap /\ terminateList' = terminateList /\ calls' = calls
        /\ inputs' = inputs /\ requests' = requests /\ crashes' = crashes
    BY <1>1 DEF vars
  <2>2. CallsOK' /\ CallsIn(created)' /\ Budget'
    BY <2>1 DEF IInv, TypeOK, CallsOK, CallsIn, Budget, InSession
  <2> QED
    BY <2>1, <2>2, NoRecordStep DEF Booked
<1>2. ASSUME NEW s \in Sessions, NEW w \in AnyWant, StartUIAbility(s, w) PROVE IInv'
  BY <1>2, StartUIAbilityStep
<1>3. ASSUME NEW s \in Sessions, NEW f \in BOOLEAN, ChangeUIAbilityVisibilityBySCB(s, f) PROVE IInv'
  BY <1>3, ChangeVisibilityStep
<1>4. ASSUME NEW s \in Sessions, NEW to \in {"FOREGROUND", "BACKGROUND"}, CallAbilityLocked(s, to) PROVE IInv'
  BY <1>4, CallAbilityLockedStep
<1>5. ASSUME NEW s \in Sessions, CallUIAbilityBySCB(s) PROVE IInv'
  BY <1>5, CallUIAbilityBySCBStep
<1>6. ASSUME NEW s \in Sessions,
             MinimizeUIAbilityBySCB(s) \/ CloseUIAbilityBySCB(s) \/ UpdateSessionInfoBySCB(s)
      PROVE  IInv'
  BY <1>6, FindRecordStep DEF MinimizeUIAbilityBySCB, CloseUIAbilityBySCB, UpdateSessionInfoBySCB
<1>7. CASE NotifyStartupExceptionBySCB
  BY <1>7, NotifyStartupExceptionStep
<1>8. ASSUME NEW c \in calls, Granted(c) PROVE IInv'
  BY <1>8, MinimizeUIAbilityStep, CloseUIAbilityStep DEF Granted
<1>9. ASSUME NEW r \in created, BeginAttach(r) \/ AttachAbilityThread(r) \/ ProcessDies(r) PROVE IInv'
  BY <1>9, BeginAttachStep, AttachAbilityThreadStep, ProcessDiesStep
<1>10. ASSUME NEW r \in created, Answers(r) PROVE IInv'
  <2>1. CASE OnAbilityRequestDone(r)
    BY <2>1, OnAbilityRequestDoneStep
  <2>2. ASSUME NEW a \in {"done", "failed"}, DispatchForeground(r, a) PROVE IInv'
    BY <2>2, DispatchForegroundStep
  <2>3. CASE "freezed" \in inputs /\ DispatchForeground(r, "freezed")
    BY <2>3, DispatchForegroundStep
  <2>4. CASE DispatchBackground(r) \/ AbilityTerminated(r)
    BY <2>4, DispatchBackgroundStep, AbilityTerminatedStep
  <2> QED
    BY <1>10, <2>1, <2>2, <2>3, <2>4 DEF Answers
<1>11. ASSUME NEW r \in created, Tasks(r) \/ Timeouts(r) PROVE IInv'
  BY <1>11, TasksStep, TimeoutsStep
<1> QED
  BY <1>1, <1>2, <1>3, <1>4, <1>5, <1>6, <1>7, <1>8, <1>9, <1>10, <1>11 DEF Next

LEMMA AlwaysIInv == Spec => []IInv
  BY InitIInv, NextIInv, PTL DEF Spec

\* The record of a session is one that exists and is in use.
LEMMA SessionRecord ==
    ASSUME IInv, NEW s \in Sessions, NEW r, r = sessionAbilityMap[s], r # NoRecord
    PROVE  rec[r] \in Record /\ InUse(rec[r])
<1>1. r \in created /\ InSession(r)
  BY DEF IInv, Places, InSession
<1> QED
  BY <1>1, RecordFacts

\* Whatever the scene board asks for and however processes, timeouts and late answers
\* interleave, a record is listed in one of sessionAbilityMap_, tmpAbilityMap_ and
\* terminateAbilityList_ at most, so that GetAbilityRecordByToken finds one answer, and
\* pendingState_ is set exactly while a transition of a listed session is under way:
\* a request that is remembered is acted on, and none is remembered in a state of rest.
THEOREM PlacedAndPending == Spec => []Consistent
<1>1. IInv => Consistent
  <2> SUFFICES ASSUME IInv, "freezed" \notin inputs, NEW s \in Sessions, NEW r,
                      r = sessionAbilityMap[s], r # NoRecord
               PROVE  rec[r].pending # "INITIAL" <=> rec[r].state \notin {"FOREGROUND", "BACKGROUND"}
    BY DEF IInv, Consistent, PendingInProgress
  <2>1. InUse(rec[r])
    BY SessionRecord
  <2> QED
    BY <2>1 DEF InUse, PendingOK, Resting
<1> QED
  BY <1>1, AlwaysIInv, PTL

\* Every transition of a listed record has something that ends it should the ability
\* hang: the delayed event of LOAD, FOREGROUND, BACKGROUND or TERMINATE, the task its
\* answer has posted, the thread that attaches the process, or the end of the process,
\* of which OnSchedulerDied is told.
THEOREM TransitionsWatched == Spec => []Watched
<1>1. IInv => Watched
  <2> SUFFICES ASSUME IInv, Calm, NEW r \in created, Known(r)
               PROVE  LET x == rec[r] IN
                   x.state \in {"INITIAL", "FOREGROUNDING", "BACKGROUNDING", "TERMINATING"} =>
                     \/ x.attaching \/ (x.killed /\ x.process # "dead") \/ "OnAbilityDied" \in x.tasks
                     \/ CASE x.state = "INITIAL"       -> "load" \in x.timers \/ LeftToSceneBoard(x)
                          [] x.state = "FOREGROUNDING" -> "foreground" \in x.timers
                          [] x.state = "BACKGROUNDING" -> "background" \in x.timers \/ "CompleteBackground" \in x.tasks
                          [] x.state = "TERMINATING"   -> x.timers \cap {"terminate", "kill"} # {}
                                                          \/ "CompleteTerminate" \in x.tasks
    BY DEF Watched, Calm
  <2>1. Guarded(rec[r])
    BY RecordFacts
  <2>2. rec[r].state = "INITIAL" => ~rec[r].closing
    BY RecordFacts DEF Ending, InUse
  <2> QED
    BY <2>1, <2>2 DEF Guarded, Armed, LeftToSceneBoard
<1> QED
  BY <1>1, AlwaysIInv, PTL

\* The last request wins: a session at rest is in the foreground or in the background as
\* the last start, show or minimise wanted it, whatever was asked for while earlier
\* transitions were under way.
THEOREM LastRequestWins == Spec => []GoalReached
<1>1. IInv => GoalReached
  <2> SUFFICES ASSUME IInv, "byCall" \notin inputs, NEW s \in Sessions, NEW r,
                      r = sessionAbilityMap[s], r # NoRecord, rec[r].pending = "INITIAL"
               PROVE  rec[r].state = rec[r].goal
    BY DEF GoalReached
  <2>1. InUse(rec[r])
    BY SessionRecord
  <2> QED
    BY <2>1 DEF InUse, GoalOK
<1> QED
  BY <1>1, AlwaysIInv, PTL

\* The last want wins: an ability at rest in the foreground was told the want of the last
\* start, also when that came in the middle of a transition and was kept as lastWant_.
THEOREM LastWantWins == Spec => []LastWantShown
<1>1. IInv => LastWantShown
  <2> SUFFICES ASSUME IInv, Quiet, NEW s \in Sessions, NEW r, r = sessionAbilityMap[s], r # NoRecord,
                      rec[r].pending = "INITIAL", rec[r].state = "FOREGROUND", rec[r].asked # NoWant
               PROVE  rec[r].told = rec[r].asked
    BY DEF LastWantShown, Quiet
  <2>1. InUse(rec[r])
    BY SessionRecord
  <2> QED
    BY <2>1 DEF InUse, WantOK, WantKept
<1> QED
  BY <1>1, AlwaysIInv, PTL
================================================================================
