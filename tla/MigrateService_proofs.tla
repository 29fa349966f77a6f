------------------------ MODULE MigrateService_proofs ------------------------
(***************************************************************************)
(* Theorems about MigrateService, for any users, identities and workers.   *)
(***************************************************************************)
EXTENDS MigrateService, SequenceTheorems, TLAPS

-----------------------------------------------------------------------------
(* The phases and their groups of models.                                  *)

LEMMA PhasesAre ==
  /\ ToSet(Phases) = {1000, 2000, 2250, 2500, 3000, 4000, 4500, 5000, 6000, 7000,
                      8000, 9000, Done}
  /\ DOMAIN Phases = 1 .. 13
  BY DEF ToSet, Phases

LEMMA NextPhase ==
  ASSUME NEW p \in ToSet(Phases) \ {Done}
  PROVE  /\ PhaseAfter[p] \in ToSet(Phases) \ {None}
         /\ \A r \in ToSet(Phases) : r < PhaseAfter[p] => r < p \/ r = p
  BY PhasesAre DEF PhaseAfter, Phases, Done, None

LEMMA GroupsAre ==
  /\ Groups[1000] = <<"profile">>
  /\ Groups[2000] = <<"store_user_data">>
  /\ Groups[2250] = <<"delete_user_data">>
  /\ Groups[2500] = <<>> /\ Groups[3000] = <<>> /\ Groups[Done] = <<>>
  /\ Groups[4000] = <<"break_friends">>
  /\ Groups[4500] = <<"recommend_qrs", "other_qrs", "profile_pointers">>
  /\ Groups[5000] = <<"non_ancestor_models">>
  /\ Groups[6000] = <<"translations", "ancestor_models">>
  /\ Groups[7000] = <<"branding", "reservations", "solution_models", "identity">>
  /\ Groups[8000] = <<"enable", "customer", "grant_roles", "owners">>
  /\ Groups[9000] = <<"make_friends">>
  BY PhasesAre DEF Groups, Done

Names ==
  {"profile", "store_user_data", "delete_user_data", "break_friends", "recommend_qrs",
   "other_qrs", "profile_pointers", "non_ancestor_models", "translations",
   "ancestor_models", "branding", "reservations", "solution_models", "identity",
   "enable", "customer", "grant_roles", "owners", "make_friends"}

LEMMA GroupsType ==
  ASSUME NEW p \in ToSet(Phases)
  PROVE  Groups[p] \in Seq(Names) /\ Len(Groups[p]) \in 0 .. 4
<1> DEFINE OK(g) == g \in Seq(Names) /\ Len(g) \in 0 .. 4
<1>1. OK(Groups[1000]) /\ OK(Groups[2000]) /\ OK(Groups[2250])
  BY GroupsAre DEF Names
<1>2. OK(Groups[2500]) /\ OK(Groups[3000]) /\ OK(Groups[Done])
  BY GroupsAre DEF Names
<1>3. OK(Groups[4000]) /\ OK(Groups[5000]) /\ OK(Groups[9000])
  BY GroupsAre DEF Names
<1>4. OK(Groups[4500]) /\ OK(Groups[6000])
  BY GroupsAre DEF Names
<1>5. OK(Groups[7000])
  BY GroupsAre DEF Names
<1>6. OK(Groups[8000])
  BY GroupsAre DEF Names
<1> HIDE DEF OK
<1>7. OK(Groups[p])
  BY <1>1, <1>2, <1>3, <1>4, <1>5, <1>6, PhasesAre
<1> QED
  BY <1>7 DEF OK

LEMMA WorkBegins ==
  ASSUME NEW p \in ToSet(Phases)
  PROVE  Groups[p] \in GroupsLeft
<1>1. SubSeq(Groups[p], 1, Len(Groups[p])) = Groups[p]
  BY GroupsType
<1>2. SubSeq(Groups[p], 1, Len(Groups[p])) \in LeftOf(p)
  BY DEF LeftOf
<1> QED
  BY <1>1, <1>2 DEF GroupsLeft

LEMMA NothingLeft == <<>> \in GroupsLeft
<1>1. 2500 \in ToSet(Phases) /\ Groups[2500] = <<>>
  BY PhasesAre, GroupsAre
<1> QED
  BY <1>1, WorkBegins

LEMMA LeftType ==
  ASSUME NEW g \in GroupsLeft
  PROVE  /\ g \in Seq(Names)
         /\ g # <<>> => Tail(g) \in GroupsLeft
<1>1. PICK p \in ToSet(Phases), k \in 1 .. 5 : g = SubSeq(Groups[p], k, Len(Groups[p]))
  BY DEF GroupsLeft, LeftOf
<1>2. PICK s \in Seq(Names) : s = Groups[p] /\ Len(s) \in 0 .. 4
  BY GroupsType
<1>3. PICK n \in 0 .. 4 : n = Len(s)
  BY <1>2
<1>4. g = SubSeq(s, k, n) /\ g \in Seq(Names)
  BY <1>1, <1>2, <1>3
<1>5. ASSUME g # <<>> PROVE Tail(g) \in GroupsLeft
  <2>1. k <= n
    BY <1>3, <1>4, <1>5
  <2>2. Tail(g) = SubSeq(s, k + 1, n)
    <3>1. k \in 1 .. Len(s) /\ n \in k .. Len(s)
      BY <1>3, <2>1
    <3> QED
      BY <1>4, <3>1, HeadTailOfSubSeq
  <2>3. PICK j \in 1 .. 5 : j = k + 1
    BY <2>1
  <2>4. Tail(g) = SubSeq(Groups[p], j, Len(Groups[p]))
    BY <1>2, <1>3, <2>2, <2>3
  <2>5. SubSeq(Groups[p], j, Len(Groups[p])) \in LeftOf(p)
    BY DEF LeftOf
  <2> QED
    BY <2>4, <2>5 DEF GroupsLeft
<1> QED
  BY <1>4, <1>5

-----------------------------------------------------------------------------
(* The inductive invariant.  What the phases before the one of the job, or *)
(* before that of a worker, do is complete and stays so; what a worker has *)
(* not moved is left; and a task for a part of the identities was made     *)
(* when the service data of the others was at the new account.             *)

AtOld == {i \in Identities : serviceData[i] = "old"}

Complete(p) ==
  /\ p \in {4500, 5000, 6000, 7000} => ToSet(Groups[p]) \subseteq moved
  /\ p \in {1000, 4000} => ~enabled["old"]
  /\ p = 2500 => AtOld = {}
  /\ p = 4000 => friends["old"] = {}

CompleteBefore(p) == \A r \in ToSet(Phases) : r < p => Complete(r)

TaskInv(t) ==
  /\ t.fn = "worker" =>
       /\ t.phase \in ToSet(Phases) \ {Done}
       /\ t.phase = 2500 /\ t.keys # {} => AtOld \subseteq t.keys
  /\ t.fn = "poll" => CompleteBefore(t.phase)
  /\ t.fn = "make" => t.keys \subseteq Users

WorkerInv(v) ==
  LET p == v.task.phase IN
    /\ v.task.fn = "worker"
    /\ TaskInv(v.task)
    /\ CompleteBefore(p)
    /\ \A g \in ToSet(Groups[p]) : g \in moved \/ g \in ToSet(v.groups)
    /\ p = 2500 => AtOld \subseteq v.left
    /\ p = 3000 => v.left \subseteq Users

Waited == {"break_friends", "make_friends"}

IInv ==
  /\ TypeOK
  /\ CompleteBefore(job.phase)
  /\ \A t \in tasks : TaskInv(t)
  /\ \A w \in Workers : worker[w] = Idle \/ WorkerInv(worker[w])
  /\ job.phase = None => tasks = {} /\ \A w \in Workers : worker[w] = Idle
  /\ moved \cap Waited = {}
  /\ "profile" \in moved => ~enabled["old"]
  /\ enabled["new"] => CompleteBefore(8000)

(* Nothing goes back to the old account, once it is disabled. *)
GoesOn ==
  /\ moved \subseteq moved'
  /\ AtOld' \subseteq AtOld
  /\ enabled'["old"] => enabled["old"]
  /\ enabled["old"] \/ friends'["old"] \subseteq friends["old"]

LEMMA StaysComplete ==
  ASSUME GoesOn
  PROVE  /\ \A p : CompleteBefore(p) => CompleteBefore(p)'
         /\ \A t : TaskInv(t) => TaskInv(t)'
         /\ \A v : WorkerInv(v) => WorkerInv(v)'
<1>1. \A p : Complete(p) => Complete(p)'
  BY DEF GoesOn, Complete
<1>2. \A p : CompleteBefore(p) => CompleteBefore(p)'
  BY <1>1 DEF CompleteBefore
<1>3. \A t : TaskInv(t) => TaskInv(t)'
  BY <1>2 DEF GoesOn, TaskInv
<1>4. \A v : WorkerInv(v) => WorkerInv(v)'
  BY <1>2, <1>3 DEF GoesOn, WorkerInv
<1> QED
  BY <1>2, <1>3, <1>4

LEMMA StepIInv ==
  ASSUME IInv, TypeOK', GoesOn,
         job'.phase = job.phase \/ CompleteBefore(job.phase)',
         \A t \in tasks' : t \in tasks \/ TaskInv(t)',
         \A w \in Workers : \/ worker'[w] \in {worker[w], Idle}
                            \/ WorkerInv(worker[w])',
         job'.phase # None \/ UNCHANGED <<job, tasks, worker>>,
         moved' \cap Waited = {},
         "profile" \in moved' => "profile" \in moved \/ ~enabled'["old"],
         enabled'["new"] => enabled["new"] \/ CompleteBefore(8000)'
  PROVE  IInv'
<1>1. CompleteBefore(job.phase)'
  BY StaysComplete DEF IInv
<1>2. \A t \in tasks' : TaskInv(t)'
  BY StaysComplete DEF IInv
<1>3. \A w \in Workers : worker'[w] = Idle \/ WorkerInv(worker[w])'
  BY StaysComplete DEF IInv
<1>4. enabled'["new"] => CompleteBefore(8000)'
  BY StaysComplete DEF IInv
<1>5. job'.phase = None => tasks' = {} /\ \A w \in Workers : worker'[w] = Idle
  BY DEF IInv
<1>6. "profile" \in moved' => ~enabled'["old"]
  BY DEF IInv, GoesOn
<1> QED
  BY <1>1, <1>2, <1>3, <1>4, <1>5, <1>6 DEF IInv

HistoryType == [data: SUBSET Users, forgotten: SUBSET Users, died: SUBSET ToSet(Phases),
                diedTwice: SUBSET ToSet(Phases), repeated: SUBSET ToSet(Phases)]

LEMMA InitIInv == Init => IInv
<1> SUFFICES ASSUME Init PROVE IInv
  OBVIOUS
<1>1. Idle \in [task: Task, groups: GroupsLeft,
                left: SUBSET (Users \cup Identities), seen: SUBSET Users]
  BY NothingLeft DEF Idle, T, Task, None
<1>2. TypeOK
  <2>1. PICK F \in SUBSET Users :
          /\ friends = [a \in Accounts |-> IF a = "old" THEN F ELSE {}]
          /\ userData = [a \in Accounts |-> IF a = "old" THEN F \ NoProfile ELSE {}]
          /\ history = [data |-> F \ NoProfile, forgotten |-> {}, died |-> {},
                        diedTwice |-> {}, repeated |-> {}]
    BY DEF Init
  <2>2. /\ friends \in [Accounts -> SUBSET Users]
        /\ userData \in [Accounts -> SUBSET Users]
        /\ roles \in [Accounts -> SUBSET Users]
    BY <2>1 DEF Init
  <2>3. history \in HistoryType
    BY <2>1 DEF HistoryType
  <2>4. job \in MigrateServiceJob
    <3>1. enabled["old"] \in BOOLEAN /\ friends["old"] \in SUBSET Users
      BY <2>1 DEF Init, Accounts
    <3> QED
      BY <3>1 DEF Init, MigrateServiceJob
  <2>5. enabled \in [Accounts -> BOOLEAN] /\ serviceData \in [Identities -> Accounts \cup {"deleted"}]
    BY DEF Init, Accounts
  <2> QED
    BY <1>1, <2>2, <2>3, <2>4, <2>5 DEF Init, TypeOK
<1>3. CompleteBefore(job.phase)
  BY PhasesAre DEF Init, CompleteBefore, None, Done
<1>4. ~enabled["new"] /\ "profile" \notin moved
  BY DEF Init, Accounts
<1> QED
  BY <1>2, <1>3, <1>4 DEF Init, IInv

-----------------------------------------------------------------------------
WorkerState == [task: Task, groups: GroupsLeft,
                left: SUBSET (Users \cup Identities), seen: SUBSET Users]

LEMMA AtWork ==
  ASSUME IInv, NEW w \in Workers, worker[w] # Idle
  PROVE  /\ worker[w] \in WorkerState
         /\ WorkerInv(worker[w])
         /\ worker[w].task.phase \in ToSet(Phases) \ {Done}
         /\ job.phase # None
<1>1. worker[w] \in WorkerState /\ WorkerInv(worker[w])
  BY DEF IInv, TypeOK, WorkerState
<1>2. TaskInv(worker[w].task) /\ worker[w].task.fn = "worker"
  BY <1>1 DEF WorkerInv
<1> QED
  BY <1>1, <1>2 DEF TaskInv, IInv

LEMMA IdleType == Idle \in WorkerState
  BY NothingLeft DEF Idle, T, Task, None, WorkerState

LEMMA TaskType ==
  ASSUME NEW fn \in {"controller", "worker", "poll", "break", "make"},
         NEW p \in {None} \cup ToSet(Phases), NEW keys \in SUBSET (Users \cup Identities)
  PROVE  T(fn, p, keys) \in Task
  BY DEF T, Task

(* Steps that do not change what the accounts have. *)
LEMMA ServiceStep ==
  ASSUME IInv, UNCHANGED account,
         job' \in MigrateServiceJob, tasks' \subseteq Task,
         worker' \in [Workers -> WorkerState],
         history' \in HistoryType,
         \E n : job'.phase = n /\ (n = job.phase \/ CompleteBefore(n)),
         \A t \in tasks' : t \in tasks \/ TaskInv(t),
         \A w \in Workers : worker'[w] \in {worker[w], Idle} \/
                            \E v : worker'[w] = v /\ WorkerInv(v),
         job'.phase # None \/ UNCHANGED <<job, tasks, worker>>
  PROVE  IInv'
<1>1. TypeOK'
  BY DEF IInv, TypeOK, account, WorkerState, HistoryType
<1>2. GoesOn
  BY DEF GoesOn, account, AtOld
<1>3. job'.phase = job.phase \/ CompleteBefore(job.phase)'
  BY <1>2, StaysComplete
<1>4. \A t \in tasks' : t \in tasks \/ TaskInv(t)'
  BY <1>2, StaysComplete
<1>5. \A w \in Workers : \/ worker'[w] \in {worker[w], Idle}
                         \/ WorkerInv(worker[w])'
  BY <1>2, StaysComplete
<1>6. moved' \cap Waited = {} /\ enabled' = enabled /\ moved' = moved
  BY DEF IInv, account
<1> QED
  BY <1>1, <1>2, <1>3, <1>4, <1>5, <1>6, StepIInv

LEMMA JobBegins ==
  ASSUME NEW j \in MigrateServiceJob, NEW p \in ToSet(Phases)
  PROVE  /\ [j EXCEPT !.phase = p] \in MigrateServiceJob
         /\ [j EXCEPT !.phase = p].phase = p
<1> DEFINE P == {None} \cup ToSet(Phases)
<1>1. p \in P
  OBVIOUS
<1>2. MigrateServiceJob = [phase: P, enabled: BOOLEAN, fsic_keys: SUBSET Users,
                           user_datas: SUBSET Users, grants: SUBSET Users]
  BY DEF MigrateServiceJob
<1> HIDE DEF P
<1> QED
  BY <1>1, <1>2

LEMMA MigrateIInv ==
  ASSUME IInv, migrate
  PROVE  IInv'
<1>1. /\ UNCHANGED <<account, worker, history>>
      /\ tasks' = tasks \cup {T("controller", None, {})}
      /\ TypeOK
  BY DEF migrate, IInv
<1>2. 1000 \in ToSet(Phases)
  BY PhasesAre
<1>3. job' \in MigrateServiceJob /\ job'.phase = 1000
  <2>1. PICK p \in ToSet(Phases) : p = 1000
    BY <1>2
  <2>2. job \in MigrateServiceJob /\ job' = [job EXCEPT !.phase = p]
    BY <1>1, <2>1 DEF migrate, TypeOK
  <2> QED
    BY <2>1, <2>2, JobBegins
<1>4. CompleteBefore(1000) /\ 1000 # None
  BY PhasesAre DEF CompleteBefore, None, Done
<1>5. T("controller", None, {}) \in Task /\ TaskInv(T("controller", None, {}))
  BY TaskType DEF TaskInv, T
<1> QED
  BY <1>1, <1>3, <1>4, <1>5, ServiceStep DEF TypeOK, WorkerState, HistoryType

LEMMA ControllerIInv ==
  ASSUME IInv, controller
  PROVE  IInv'
<1>1. PICK t \in tasks :
        /\ t.fn = "controller"
        /\ \/ /\ job.phase = Done
              /\ tasks' = tasks \ {t}
              /\ UNCHANGED history
           \/ /\ job.phase \notin {Done, t.phase}
              /\ tasks' = (tasks \ {t}) \cup {T("worker", job.phase, {}),
                                              T("controller", job.phase, {})}
              /\ UNCHANGED history
           \/ /\ job.phase \notin {Done, t.phase}
              /\ job.phase \notin history.repeated /\ MayFail(job.phase)
              /\ tasks' = tasks \cup {T("worker", job.phase, {})}
              /\ history' = [history EXCEPT !.repeated = @ \cup {job.phase}]
        /\ UNCHANGED <<job, account, worker>>
  BY DEF controller
<1>2. TypeOK /\ job.phase \in ToSet(Phases) /\ job.phase # None
  BY <1>1 DEF IInv, TypeOK, MigrateServiceJob
<1>3. ASSUME job.phase # Done
      PROVE  /\ TaskInv(T("worker", job.phase, {}))
             /\ TaskInv(T("controller", job.phase, {}))
  BY <1>2, <1>3 DEF TaskInv, T
<1>4. T("worker", job.phase, {}) \in Task /\ T("controller", job.phase, {}) \in Task
  BY <1>2, TaskType
<1>5. history' \in HistoryType
  BY <1>1, <1>2 DEF TypeOK, HistoryType
<1>6. tasks' \subseteq Task /\ \A u \in tasks' : u \in tasks \/ TaskInv(u)
  BY <1>1, <1>2, <1>3, <1>4 DEF TypeOK
<1> QED
  BY <1>1, <1>2, <1>5, <1>6, ServiceStep DEF TypeOK, WorkerState

(* A worker that begins has all its groups and identities left. *)
LEMMA WorkType ==
  ASSUME IInv, NEW t \in tasks, t.fn = "worker"
  PROVE  /\ Work(t) \in WorkerState
         /\ Work(t).task = t /\ Work(t).groups = Groups[t.phase]
         /\ t.phase = 2500 =>
              Work(t).left = IF t.keys = {} THEN Identities ELSE t.keys
         /\ t.phase = 3000 => Work(t).left \subseteq Users
<1>1. TypeOK /\ t \in Task /\ t.phase \in ToSet(Phases)
  BY DEF IInv, TypeOK, TaskInv
<1>2. /\ roles["old"] \subseteq Users /\ job.fsic_keys \subseteq Users
      /\ t.keys \subseteq Users \cup Identities
  BY <1>1 DEF TypeOK, Accounts, MigrateServiceJob, Task
<1> DEFINE left == CASE t.phase = 2000 -> job.fsic_keys
                     [] t.phase = 2500 -> IF t.keys = {} THEN Identities ELSE t.keys
                     [] t.phase = 3000 -> roles["old"]
                     [] OTHER -> {}
           seen == IF t.phase = 3000 THEN roles["old"] ELSE {}
<1>3. left \subseteq Users \cup Identities
  BY <1>2
<1>4. t.phase = 2500 => left = IF t.keys = {} THEN Identities ELSE t.keys
  BY 2500 # 2000 /\ 2500 # 3000
<1>5. seen \subseteq Users /\ (t.phase = 3000 => left \subseteq Users)
  BY <1>2, 3000 # 2000 /\ 3000 # 2500
<1>6. Work(t) = [task |-> t, groups |-> Groups[t.phase], left |-> left, seen |-> seen]
  BY DEF Work
<1> HIDE DEF left, seen
<1> QED
  BY <1>1, <1>3, <1>4, <1>5, <1>6, WorkBegins DEF WorkerState

LEMMA StartIInv ==
  ASSUME IInv, NEW w \in Workers, Start(w)
  PROVE  IInv'
<1>1. PICK t \in tasks :
        /\ t.fn = "worker"
        /\ tasks' = tasks \ {t}
        /\ worker' = [worker EXCEPT ![w] = IF job.phase = t.phase THEN Work(t) ELSE Idle]
        /\ UNCHANGED <<job, account, history>>
  BY DEF Start
<1>2. TypeOK /\ job.phase # None /\ TaskInv(t)
  BY <1>1 DEF IInv
<1>3. worker' \in [Workers -> WorkerState]
  BY <1>1, <1>2, WorkType, IdleType DEF TypeOK, WorkerState
<1>4. ASSUME job.phase = t.phase PROVE WorkerInv(Work(t))
  <2>1. t.phase \in ToSet(Phases) /\ CompleteBefore(t.phase)
    BY <1>1, <1>2, <1>4 DEF TaskInv, IInv
  <2>2. t.phase = 2500 => AtOld \subseteq Work(t).left
    BY <1>1, <1>2, WorkType DEF TaskInv, AtOld
  <2> QED
    BY <1>1, <1>2, <2>1, <2>2, WorkType DEF WorkerInv
<1>5. \A v \in Workers : worker'[v] \in {worker[v], Idle} \/
                         \E x : worker'[v] = x /\ WorkerInv(x)
  BY <1>1, <1>2, <1>4 DEF TypeOK
<1> QED
  BY <1>1, <1>2, <1>3, <1>5, ServiceStep DEF TypeOK, HistoryType
MoveOn(x) == [x EXCEPT !.groups = Tail(@)]

LEMMA MovedOn ==
  ASSUME NEW x \in WorkerState, x.groups # <<>>
  PROVE  /\ MoveOn(x) \in WorkerState
         /\ MoveOn(x).task = x.task /\ MoveOn(x).left = x.left
         /\ \A h \in ToSet(x.groups) :
              h = Head(x.groups) \/ h \in ToSet(MoveOn(x).groups)
<1> DEFINE s == x.groups
           v == MoveOn(x)
<1>1. s \in Seq(Names) /\ s # <<>> /\ Tail(s) \in GroupsLeft
  BY LeftType DEF WorkerState
<1>2. /\ v \in WorkerState /\ v.task = x.task /\ v.left = x.left
      /\ v.groups = Tail(s)
  BY <1>1 DEF WorkerState, MoveOn
<1> HIDE DEF v
<1>3. ASSUME NEW h \in ToSet(s), h # Head(s) PROVE h \in ToSet(Tail(s))
  <2> HIDE DEF s
  <2>1. PICK i \in 1 .. Len(s) : h = s[i]
    BY <1>1, <1>3 DEF ToSet
  <2>2. i # 1
    BY <1>1, <1>3, <2>1
  <2>3. /\ Tail(s) \in Seq(Names) /\ i - 1 \in 1 .. Len(Tail(s))
        /\ Tail(s)[i - 1] = h
    BY <1>1, <2>1, <2>2, HeadTailProperties
  <2>4. i - 1 \in DOMAIN Tail(s)
    BY <2>3
  <2> QED
    BY <2>3, <2>4 DEF ToSet
<1> QED
  BY <1>2, <1>3 DEF v

(* A worker has moved the next of its groups of models. *)
LEMMA MoveIInv ==
  ASSUME IInv, NEW w \in Workers, NEW p \in ToSet(Phases), NEW g \in ToSet(Groups[p]),
         Moves(w, p, g), g \notin Waited,
         job' \in MigrateServiceJob, job'.phase = job.phase,
         UNCHANGED <<tasks, friends, serviceData>>,
         enabled' \in [Accounts -> BOOLEAN],
         roles' \in [Accounts -> SUBSET Users],
         userData' \in [Accounts -> SUBSET Users],
         enabled'["old"] => enabled["old"] /\ g # "profile",
         enabled'["new"] => enabled["new"] \/ p = 8000
  PROVE  IInv'
<1>1. /\ worker[w] # Idle /\ worker[w].task.phase = p
      /\ worker[w].groups # <<>> /\ Head(worker[w].groups) = g
      /\ worker' = [worker EXCEPT ![w].groups = Tail(@)]
      /\ moved' = moved \cup {g} /\ UNCHANGED history
  BY DEF Moves, At
<1>2. /\ worker[w] \in WorkerState /\ WorkerInv(worker[w]) /\ job.phase # None
      /\ TypeOK
  BY <1>1, AtWork DEF IInv
<1>3. /\ MoveOn(worker[w]) \in WorkerState
      /\ MoveOn(worker[w]).task = worker[w].task
      /\ MoveOn(worker[w]).left = worker[w].left
      /\ \A h \in ToSet(worker[w].groups) :
           h = g \/ h \in ToSet(MoveOn(worker[w]).groups)
  <2>1. PICK x \in WorkerState : x = worker[w]
    BY <1>2
  <2>2. x.groups # <<>> /\ Head(x.groups) = g
    BY <1>1, <2>1
  <2>3. /\ MoveOn(x) \in WorkerState /\ MoveOn(x).task = x.task
        /\ MoveOn(x).left = x.left
    BY <2>2, MovedOn
  <2>4. \A h \in ToSet(x.groups) : h = g \/ h \in ToSet(MoveOn(x).groups)
    BY <2>2, MovedOn
  <2> QED
    BY <2>1, <2>3, <2>4
<1>4. PICK v \in WorkerState : v = MoveOn(worker[w])
  BY <1>3
<1>5. worker' = [worker EXCEPT ![w] = v]
  BY <1>1, <1>4 DEF MoveOn
<1>6. GoesOn
  BY <1>1 DEF GoesOn, AtOld
<1>8. WorkerInv(v)'
  <2>1. CompleteBefore(p)' /\ TaskInv(v.task)'
    BY <1>1, <1>2, <1>3, <1>4, <1>6, StaysComplete DEF WorkerInv
  <2>2. \A h \in ToSet(Groups[p]) : h \in moved' \/ h \in ToSet(v.groups)
    BY <1>1, <1>2, <1>3, <1>4 DEF WorkerInv
  <2>3. AtOld' = AtOld
    BY DEF AtOld
  <2> QED
    BY <1>1, <1>2, <1>3, <1>4, <2>1, <2>2, <2>3 DEF WorkerInv
<1>9. \A x \in Workers : worker'[x] = worker[x] \/ worker'[x] = v
  BY <1>2, <1>5 DEF TypeOK
<1>10. \A x \in Workers : worker'[x] \in {worker[x], Idle} \/ WorkerInv(worker[x])'
  BY <1>8, <1>9
<1>11. TypeOK'
  <2>1. worker' \in [Workers -> WorkerState]
    BY <1>2, <1>5 DEF TypeOK, WorkerState
  <2>2. moved' \subseteq UNION {ToSet(Groups[q]) : q \in ToSet(Phases)}
    BY <1>1, <1>2 DEF TypeOK
  <2>3. /\ friends' \in [Accounts -> SUBSET Users] /\ tasks' \subseteq Task
        /\ serviceData' \in [Identities -> Accounts \cup {"deleted"}]
        /\ history' = history
    BY <1>1, <1>2 DEF TypeOK
  <2> QED
    BY <1>2, <2>1, <2>2, <2>3 DEF TypeOK, WorkerState
<1>12. enabled'["new"] => enabled["new"] \/ CompleteBefore(8000)'
  BY <1>1, <1>2, <1>6, StaysComplete DEF WorkerInv
<1>13. moved' \cap Waited = {}
  BY <1>1 DEF IInv
<1>14. "profile" \in moved' => "profile" \in moved \/ ~enabled'["old"]
  BY <1>1
<1> QED
  BY <1>2, <1>6, <1>10, <1>11, <1>12, <1>13, <1>14, StepIInv

LEMMA GroupIn ==
  /\ "profile" \in ToSet(Groups[1000])
  /\ "store_user_data" \in ToSet(Groups[2000])
  /\ "delete_user_data" \in ToSet(Groups[2250])
  /\ {"enable", "grant_roles", "customer", "owners"} \subseteq ToSet(Groups[8000])
  /\ "break_friends" \in ToSet(Groups[4000])
<1>1. "profile" \in ToSet(Groups[1000])
  BY GroupsAre DEF ToSet
<1>2. "store_user_data" \in ToSet(Groups[2000])
  BY GroupsAre DEF ToSet
<1>3. "delete_user_data" \in ToSet(Groups[2250])
  BY GroupsAre DEF ToSet
<1>4. {"enable", "grant_roles", "customer", "owners"} \subseteq ToSet(Groups[8000])
  BY GroupsAre DEF ToSet
<1>5. "break_friends" \in ToSet(Groups[4000])
  BY GroupsAre DEF ToSet
<1> QED
  BY <1>1, <1>2, <1>3, <1>4, <1>5

LEMMA MovesModelsIInv ==
  ASSUME IInv, NEW w \in Workers, NEW p \in {4500, 5000, 6000, 7000},
         MovesModels(w, p)
  PROVE  IInv'
<1>1. PICK g \in ToSet(Groups[p]) : Moves(w, p, g)
  BY DEF MovesModels
<1>2. p \in ToSet(Phases)
  BY PhasesAre
<1>3. g \notin Waited /\ g # "profile"
  <2>1. CASE p = 4500
    BY <2>1, GroupsAre DEF ToSet, Waited
  <2>2. CASE p = 5000
    BY <2>2, GroupsAre DEF ToSet, Waited
  <2>3. CASE p = 6000
    BY <2>3, GroupsAre DEF ToSet, Waited
  <2>4. CASE p = 7000
    BY <2>4, GroupsAre DEF ToSet, Waited
  <2> QED
    BY <2>1, <2>2, <2>3, <2>4
<1> QED
  BY <1>1, <1>2, <1>3, MoveIInv DEF MovesModels, IInv, TypeOK
LEMMA GroupsOfPhase ==
  ASSUME IInv, NEW w \in Workers, NEW g \in Names \ Waited, NEW p \in ToSet(Phases),
         g \in ToSet(Groups[p]), Moves(w, p, g),
         job' \in MigrateServiceJob, job'.phase = job.phase,
         UNCHANGED <<tasks, friends, serviceData>>
  PROVE  /\ UNCHANGED <<enabled, roles, userData>> /\ g # "profile" => IInv'
         /\ (/\ enabled' \in [Accounts -> BOOLEAN]
             /\ enabled'["old"] => enabled["old"] /\ g # "profile"
             /\ enabled'["new"] => enabled["new"] \/ p = 8000
             /\ UNCHANGED <<roles, userData>>) => IInv'
         /\ (/\ roles' \in [Accounts -> SUBSET Users]
             /\ UNCHANGED <<enabled, userData>> /\ g # "profile") => IInv'
         /\ (/\ userData' \in [Accounts -> SUBSET Users]
             /\ UNCHANGED <<enabled, roles>> /\ g # "profile") => IInv'
<1>1. /\ enabled \in [Accounts -> BOOLEAN]
      /\ roles \in [Accounts -> SUBSET Users]
      /\ userData \in [Accounts -> SUBSET Users]
  BY DEF IInv, TypeOK
<1> QED
  BY <1>1, MoveIInv

LEMMA DisableIInv ==
  ASSUME IInv, NEW w \in Workers, _1000_disable_old_service(w)
  PROVE  IInv'
<1>1. 1000 \in ToSet(Phases) /\ "profile" \in Names \ Waited
  BY PhasesAre DEF Names, Waited
<1>2. /\ enabled' \in [Accounts -> BOOLEAN] /\ ~enabled'["old"]
      /\ enabled'["new"] = enabled["new"]
  BY DEF IInv, TypeOK, Accounts, _1000_disable_old_service
<1>3. job' \in MigrateServiceJob /\ job'.phase = job.phase
  BY DEF IInv, TypeOK, _1000_disable_old_service
<1> QED
  BY <1>1, <1>2, <1>3, GroupIn, GroupsOfPhase DEF _1000_disable_old_service

LEMMA MigrateUserDataIInv ==
  ASSUME IInv, NEW w \in Workers, _2000_migrate_user_data(w)
  PROVE  IInv'
<1>1. 2000 \in ToSet(Phases) /\ "store_user_data" \in Names \ Waited
  BY PhasesAre DEF Names, Waited
<1>2. worker[w].seen \subseteq Users /\ job \in MigrateServiceJob
  BY DEF IInv, TypeOK
<1>3. job' \in MigrateServiceJob /\ job'.phase = job.phase
  BY <1>2 DEF _2000_migrate_user_data, MigrateServiceJob
<1> QED
  BY <1>1, <1>3, GroupIn, GroupsOfPhase DEF _2000_migrate_user_data

LEMMA CleanupIInv ==
  ASSUME IInv, NEW w \in Workers, _2250_cleanup_user_data(w)
  PROVE  IInv'
<1>1. 2250 \in ToSet(Phases) /\ "delete_user_data" \in Names \ Waited
  BY PhasesAre DEF Names, Waited
<1>2. userData' \in [Accounts -> SUBSET Users]
  BY DEF IInv, TypeOK, Accounts, _2250_cleanup_user_data
<1>3. job' \in MigrateServiceJob /\ job'.phase = job.phase
  BY DEF IInv, TypeOK, _2250_cleanup_user_data
<1> QED
  BY <1>1, <1>2, <1>3, GroupIn, GroupsOfPhase DEF _2250_cleanup_user_data

LEMMA EnableIInv ==
  ASSUME IInv, NEW w \in Workers, _8000_enable(w)
  PROVE  IInv'
<1>1. 8000 \in ToSet(Phases) /\ "enable" \in Names \ Waited
  BY PhasesAre DEF Names, Waited
<1>2. enabled' \in [Accounts -> BOOLEAN] /\ enabled'["old"] = enabled["old"]
  BY DEF IInv, TypeOK, Accounts, MigrateServiceJob, _8000_enable
<1>3. job' \in MigrateServiceJob /\ job'.phase = job.phase
  BY DEF IInv, TypeOK, _8000_enable
<1> QED
  BY <1>1, <1>2, <1>3, GroupIn, GroupsOfPhase DEF _8000_enable

LEMMA GrantRolesIInv ==
  ASSUME IInv, NEW w \in Workers, _8000_grant_roles(w)
  PROVE  IInv'
<1>1. 8000 \in ToSet(Phases) /\ "grant_roles" \in Names \ Waited
  BY PhasesAre DEF Names, Waited
<1>2. roles' \in [Accounts -> SUBSET Users]
  BY DEF IInv, TypeOK, Accounts, MigrateServiceJob, _8000_grant_roles
<1>3. job' \in MigrateServiceJob /\ job'.phase = job.phase
  BY DEF IInv, TypeOK, _8000_grant_roles
<1> QED
  BY <1>1, <1>2, <1>3, GroupIn, GroupsOfPhase DEF _8000_grant_roles

LEMMA FinishModelsIInv ==
  ASSUME IInv, NEW w \in Workers, _8000_finish_models(w)
  PROVE  IInv'
<1>1. PICK g \in {"customer", "owners"} : Moves(w, 8000, g)
  BY DEF _8000_finish_models
<1>2. 8000 \in ToSet(Phases) /\ g \in Names \ Waited
  BY <1>1, PhasesAre DEF Names, Waited
<1>3. job' \in MigrateServiceJob /\ job'.phase = job.phase
  BY DEF IInv, TypeOK, _8000_finish_models
<1> QED
  BY <1>1, <1>2, <1>3, GroupIn, GroupsOfPhase DEF _8000_finish_models

-----------------------------------------------------------------------------
(* A worker reads what there is of a user. *)
LEMMA ReadType ==
  ASSUME NEW x \in WorkerState, WorkerInv(x), NEW u, NEW U \in SUBSET Users
  PROVE  /\ Read(x, u, U) \in WorkerState
         /\ x.task.phase # 2500 => WorkerInv(Read(x, u, U))
<1> DEFINE v == [x EXCEPT !.left = @ \ {u}, !.seen = @ \cup U]
<1>1. /\ v \in WorkerState /\ v.task = x.task /\ v.groups = x.groups
      /\ v.left \subseteq x.left
  BY DEF WorkerState
<1>2. v = Read(x, u, U)
  BY DEF Read
<1> HIDE DEF v
<1>3. x.task.phase # 2500 => WorkerInv(v)
  BY <1>1 DEF WorkerInv
<1> QED
  BY <1>1, <1>2, <1>3

(* The worker of phase 2000 gets the user data of a friend. *)
LEMMA GetIInv ==
  ASSUME IInv, NEW w \in Workers, _2000_get(w)
  PROVE  IInv'
<1>1. PICK u \in worker[w].left : GetsUserData(w, u)
  BY DEF _2000_get
<1>2. /\ worker[w] # Idle /\ worker[w].task.phase = 2000 /\ TypeOK
      /\ UNCHANGED <<job, account, tasks, history>>
  BY DEF _2000_get, At, IInv
<1>3. userData["old"] \cap {u} \in SUBSET Users /\ job.phase # None
  BY <1>2, AtWork DEF TypeOK, Accounts
<1>4. PICK x \in WorkerState, U \in SUBSET Users :
        x = worker[w] /\ WorkerInv(x) /\ U = userData["old"] \cap {u}
  <2>1. PICK x \in WorkerState : x = worker[w] /\ WorkerInv(x)
    BY <1>2, AtWork
  <2>2. PICK U \in SUBSET Users : U = userData["old"] \cap {u}
    BY <1>3
  <2> QED
    BY <2>1, <2>2
<1>5. Read(x, u, U) \in WorkerState /\ WorkerInv(Read(x, u, U))
  BY <1>2, <1>4, ReadType
<1>6. PICK y \in WorkerState : worker' = [worker EXCEPT ![w] = y] /\ WorkerInv(y)
  <2>1. worker' = [worker EXCEPT ![w] = Read(x, u, U)]
    BY <1>1, <1>4 DEF GetsUserData
  <2> QED
    BY <1>5, <2>1
<1>7. worker' \in [Workers -> WorkerState]
  BY <1>2, <1>6 DEF TypeOK, WorkerState
<1>8. \A v \in Workers : worker'[v] \in {worker[v], Idle} \/
                         \E z : worker'[v] = z /\ WorkerInv(z)
  BY <1>2, <1>6 DEF TypeOK
<1> QED
  BY <1>2, <1>3, <1>7, <1>8, ServiceStep DEF TypeOK, HistoryType

LEMMA JobGrants ==
  ASSUME NEW j \in MigrateServiceJob, NEW U \in SUBSET Users
  PROVE  /\ [j EXCEPT !.grants = @ \cup U] \in MigrateServiceJob
         /\ [j EXCEPT !.grants = @ \cup U].phase = j.phase
  BY DEF MigrateServiceJob

(* A role is revoked, and added to the job or forgotten. *)
LEMMA RevokeIInv ==
  ASSUME IInv, NEW w \in Workers, _3000_revoke_roles(w)
  PROVE  IInv'
<1>1. PICK u \in worker[w].left : Revokes(w, u)
  BY DEF _3000_revoke_roles
<1>2. /\ worker[w] # Idle /\ worker[w].task.phase = 3000 /\ TypeOK
      /\ UNCHANGED <<enabled, friends, userData, serviceData, moved, tasks>>
  BY DEF _3000_revoke_roles, At, IInv
<1>3. WorkerInv(worker[w]) /\ job.phase # None
  BY <1>2, AtWork
<1>4. u \in Users
  BY <1>1, <1>2, <1>3 DEF WorkerInv
<1>5. PICK y \in WorkerState : worker' = [worker EXCEPT ![w] = y] /\ WorkerInv(y)
  <2>1. PICK x \in WorkerState : x = worker[w] /\ WorkerInv(x)
    BY <1>2, AtWork
  <2>2. Read(x, u, {}) \in WorkerState /\ WorkerInv(Read(x, u, {}))
    BY <1>2, <2>1, ReadType
  <2> QED
    BY <1>1, <2>1, <2>2 DEF Revokes
<1>6. GoesOn
  BY <1>2 DEF GoesOn, AtOld
<1>7. worker' \in [Workers -> WorkerState]
  BY <1>2, <1>5 DEF TypeOK, WorkerState
<1>8. \A v \in Workers : worker'[v] \in {worker[v], Idle} \/ WorkerInv(worker[v])'
  <2>1. WorkerInv(y)'
    BY <1>5, <1>6, StaysComplete
  <2> QED
    BY <1>2, <1>5, <2>1 DEF TypeOK
<1>9. job' \in MigrateServiceJob /\ job'.phase = job.phase
  <2>1. job \in MigrateServiceJob /\ {u} \in SUBSET Users
    BY <1>2, <1>4 DEF TypeOK
  <2>2. job' = job \/ job' = [job EXCEPT !.grants = @ \cup {u}]
    BY <1>1 DEF Revokes
  <2> QED
    BY <2>1, <2>2, JobGrants
<1>10. TypeOK'
  <2>1. history' \in HistoryType
    <3>1. history' = history \/ history' = [history EXCEPT !.forgotten = @ \cup {u}]
      BY <1>1 DEF Revokes
    <3> QED
      BY <1>2, <1>4, <3>1 DEF TypeOK, HistoryType
  <2>2. roles' \in [Accounts -> SUBSET Users]
    BY <1>1, <1>2 DEF TypeOK, Revokes
  <2> QED
    BY <1>2, <1>7, <1>9, <2>1, <2>2 DEF TypeOK, WorkerState, HistoryType
<1> QED
  BY <1>2, <1>3, <1>6, <1>8, <1>9, <1>10, StepIInv DEF IInv

-----------------------------------------------------------------------------
LEMMA ChunkOf == \A S : Chunk(S) \in SUBSET S
  BY DEF Chunk

(* The service data of a chunk of identities is moved. *)
LEMMA ChunkIInv ==
  ASSUME IInv, NEW w \in Workers, _2500_migrate_service_data(w)
  PROVE  IInv'
<1>1. PICK chunk \in SUBSET worker[w].left : MigratesChunk(w, chunk)
  BY ChunkOf DEF _2500_migrate_service_data
<1>2. /\ worker[w] # Idle /\ worker[w].task.phase = 2500 /\ TypeOK
      /\ UNCHANGED <<job, enabled, friends, roles, userData, moved, history>>
  BY DEF _2500_migrate_service_data, At, IInv
<1>3. PICK x \in WorkerState : x = worker[w] /\ WorkerInv(x)
  BY <1>2, AtWork
<1>4. job.phase # None /\ 2500 \in ToSet(Phases) \ {Done}
  BY <1>2, AtWork, PhasesAre DEF Done
<1>5. PICK rest \in SUBSET (Users \cup Identities) : rest = x.left \ chunk
  BY DEF WorkerState
<1>6. /\ serviceData' = [i \in Identities |->
           IF i \notin chunk THEN serviceData[i]
           ELSE IF serviceData[i] = "old" THEN "new" ELSE "deleted"]
      /\ tasks' = tasks \cup {T("worker", 2500, keys) : keys \in {rest} \ {{}}}
      /\ worker' = [worker EXCEPT ![w] =
                      IF rest = {} THEN [worker[w] EXCEPT !.left = {}] ELSE Idle]
  BY <1>1, <1>3, <1>5 DEF MigratesChunk
<1>7. AtOld' \subseteq AtOld \ chunk
  BY <1>6 DEF AtOld
<1>8. AtOld \subseteq x.left
  BY <1>2, <1>3 DEF WorkerInv
<1>9. GoesOn
  BY <1>2, <1>7 DEF GoesOn
<1> DEFINE n == T("worker", 2500, rest)
<1>10. tasks' \subseteq tasks \cup {n} /\ n \in Task /\ TaskInv(n)'
  <2>1. n \in Task
    BY <1>4, TaskType
  <2>2. n.fn = "worker" /\ n.phase = 2500 /\ n.keys = rest
    BY DEF T
  <2>3. AtOld' \subseteq rest
    BY <1>5, <1>7, <1>8
  <2>4. tasks' \subseteq tasks \cup {n}
    BY <1>6
  <2>5. TaskInv(T("worker", 2500, rest))'
    BY <1>4, <2>2, <2>3 DEF TaskInv
  <2> QED
    BY <2>1, <2>4, <2>5
<1>11. PICK y \in WorkerState : /\ worker' = [worker EXCEPT ![w] = y]
                                /\ y = Idle \/ WorkerInv(y)'
  <2>1. CASE rest = {}
    <3> DEFINE y == [x EXCEPT !.left = {}]
    <3>1. /\ y \in WorkerState /\ y.task = x.task /\ y.groups = x.groups
          /\ y.left = {}
      BY DEF WorkerState
    <3>2. worker' = [worker EXCEPT ![w] = y]
      BY <1>3, <1>6, <2>1
    <3>3. PICK z \in WorkerState : z = y
      BY <3>1
    <3>4. WorkerInv(x)'
      BY <1>3, <1>9, StaysComplete
    <3>5. AtOld' = {}
      BY <1>5, <1>7, <1>8, <2>1
    <3>6. WorkerInv(z)'
      BY <1>2, <1>3, <3>1, <3>3, <3>4, <3>5 DEF WorkerInv
    <3> QED
      BY <3>2, <3>3, <3>6
  <2>2. CASE rest # {}
    BY <1>6, <2>2, IdleType
  <2> QED
    BY <2>1, <2>2
<1>12. worker' \in [Workers -> WorkerState]
  BY <1>2, <1>11 DEF TypeOK, WorkerState
<1>13. \A v \in Workers : worker'[v] \in {worker[v], Idle} \/ WorkerInv(worker[v])'
  BY <1>2, <1>11 DEF TypeOK
<1>14. TypeOK'
  <2>1. serviceData' \in [Identities -> Accounts \cup {"deleted"}]
    BY <1>2, <1>6 DEF TypeOK, Accounts
  <2>2. tasks' \subseteq Task
    BY <1>2, <1>10 DEF TypeOK
  <2> QED
    BY <1>2, <1>12, <2>1, <2>2 DEF TypeOK, WorkerState
<1>15. \A t \in tasks' : t \in tasks \/ TaskInv(t)'
  BY <1>10
<1> QED
  BY <1>2, <1>4, <1>9, <1>13, <1>14, <1>15, StepIInv DEF IInv

-----------------------------------------------------------------------------
(* A phase ends when what it does is complete. *)
LEMMA PhaseEnds ==
  ASSUME IInv, NEW p \in ToSet(Phases) \ {Done}, SetPhase(p, PhaseAfter[p]),
         job.phase # p \/ Complete(p)
  PROVE  /\ job' \in MigrateServiceJob
         /\ \E n : job'.phase = n /\ (n = job.phase \/ CompleteBefore(n))
         /\ job'.phase # None \/ job' = job
<1>1. job \in MigrateServiceJob /\ CompleteBefore(job.phase)
  BY DEF IInv, TypeOK
<1>2. CASE job.phase # p
  BY <1>1, <1>2 DEF SetPhase
<1>3. CASE job.phase = p
  <2>1. PICK q \in ToSet(Phases) \ {None} : q = PhaseAfter[p]
    BY NextPhase
  <2>2. job' = [job EXCEPT !.phase = q]
    BY <1>3, <2>1 DEF SetPhase
  <2>3. job' \in MigrateServiceJob /\ job'.phase = q
    BY <1>1, <2>2 DEF MigrateServiceJob
  <2>4. CompleteBefore(q)
    BY <1>1, <1>3, <2>1, NextPhase DEF CompleteBefore
  <2> QED
    BY <2>3, <2>4
<1> QED
  BY <1>2, <1>3

(* A task looks whether the friends are disconnected or connected. *)
LEMMA PollIInv ==
  ASSUME IInv, NEW p \in {4000, 9000}, NEW t \in tasks, tasks' \in {tasks, tasks \ {t}},
         \/ job' = job
         \/ SetPhase(p, PhaseAfter[p]) /\ (job.phase # p \/ Complete(p)),
         UNCHANGED <<account, worker, history>>
  PROVE  IInv'
<1>1. TypeOK /\ job.phase # None
  BY DEF IInv
<1>2. p \in ToSet(Phases) \ {Done}
  BY PhasesAre DEF Done
<1>3. /\ job' \in MigrateServiceJob
      /\ \E n : job'.phase = n /\ (n = job.phase \/ CompleteBefore(n))
      /\ job'.phase # None
  <2>1. CASE job' = job
    BY <1>1, <2>1 DEF TypeOK
  <2>2. CASE SetPhase(p, PhaseAfter[p]) /\ (job.phase # p \/ Complete(p))
    BY <1>1, <1>2, <2>2, PhaseEnds
  <2> QED
    BY <2>1, <2>2
<1> QED
  BY <1>1, <1>3, ServiceStep DEF TypeOK, WorkerState, HistoryType

LEMMA Poll4000IInv ==
  ASSUME IInv, _4000_poll
  PROVE  IInv'
<1>1. PICK t \in tasks :
        /\ \/ /\ job.phase # 4000 \/ friends["old"] = {}
              /\ tasks' = tasks \ {t}
              /\ SetPhase(4000, PhaseAfter[4000])
           \/ UNCHANGED <<tasks, job>>
        /\ UNCHANGED <<account, worker, history>>
  BY DEF _4000_poll, Polls
<1>2. job.phase = 4000 /\ friends["old"] = {} => Complete(4000)
  <2>1. CompleteBefore(4000) => Complete(1000)
    BY PhasesAre DEF CompleteBefore
  <2> QED
    BY <2>1 DEF Complete, IInv
<1> QED
  BY <1>1, <1>2, PollIInv

LEMMA Poll9000IInv ==
  ASSUME IInv, _9000_poll
  PROVE  IInv'
<1>1. PICK t \in tasks :
        /\ \/ /\ tasks' = tasks \ {t}
              /\ SetPhase(9000, PhaseAfter[9000])
           \/ UNCHANGED <<tasks, job>>
        /\ UNCHANGED <<account, worker, history>>
  BY DEF _9000_poll, Polls
<1>2. Complete(9000)
  BY DEF Complete
<1> QED
  BY <1>1, <1>2, PollIInv

(* A worker ends after it put tasks on the queue. *)
LEMMA SchedulesIInv ==
  ASSUME IInv, NEW w \in Workers, NEW B \in SUBSET Task, worker[w] # Idle,
         worker' = [worker EXCEPT ![w] = Idle], tasks' = tasks \cup B,
         \A b \in B : TaskInv(b),
         UNCHANGED <<job, account>>,
         history' \in HistoryType
  PROVE  IInv'
<1>1. TypeOK /\ job.phase # None
  BY AtWork DEF IInv
<1>2. worker' \in [Workers -> WorkerState]
  BY <1>1, IdleType DEF TypeOK, WorkerState
<1>3. \A v \in Workers : worker'[v] \in {worker[v], Idle}
  BY <1>1 DEF TypeOK
<1> QED
  BY <1>1, <1>2, <1>3, ServiceStep DEF TypeOK

(* The tasks for the friends U, and the one that looks whether they are done. *)
TasksFor(fn, p, U) == {T(fn, p, {u}) : u \in U} \cup {T("poll", p, {})}

LEMMA TasksForType ==
  ASSUME NEW fn \in {"break", "make"}, NEW p \in ToSet(Phases), NEW U \in SUBSET Users,
         CompleteBefore(p)
  PROVE  TasksFor(fn, p, U) \in SUBSET Task /\ \A b \in TasksFor(fn, p, U) : TaskInv(b)
<1>1. \A u \in U : T(fn, p, {u}) \in Task /\ TaskInv(T(fn, p, {u}))
  BY TaskType DEF TaskInv, T
<1>2. T("poll", p, {}) \in Task /\ TaskInv(T("poll", p, {}))
  BY TaskType DEF TaskInv, T
<1> QED
  BY <1>1, <1>2 DEF TasksFor

LEMMA DisconnectIInv ==
  ASSUME IInv, NEW w \in Workers, _4000_disconnect_friends(w)
  PROVE  IInv'
<1>1. PICK U \in SUBSET Users : U = friends["old"]
  BY DEF IInv, TypeOK, Accounts
<1>2. /\ worker[w] # Idle /\ worker' = [worker EXCEPT ![w] = Idle]
      /\ UNCHANGED <<job, account, history>>
      /\ tasks' = tasks \cup TasksFor("break", 4000, U)
  BY <1>1 DEF _4000_disconnect_friends, Schedules, At, TasksFor
<1>3. PICK B \in SUBSET Task :
        B = TasksFor("break", 4000, U) /\ \A b \in B : TaskInv(b)
  <2>1. CompleteBefore(4000)
    BY AtWork DEF _4000_disconnect_friends, Schedules, At, WorkerInv
  <2> QED
    BY <2>1, PhasesAre, TasksForType
<1>4. tasks' = tasks \cup B
  BY <1>2, <1>3
<1>5. history' \in HistoryType
  BY <1>2 DEF IInv, TypeOK, HistoryType
<1>6. /\ worker[w] # Idle /\ worker' = [worker EXCEPT ![w] = Idle]
      /\ UNCHANGED <<job, account>> /\ \A b \in B : TaskInv(b)
  BY <1>2, <1>3
<1> QED
  BY <1>4, <1>5, <1>6, SchedulesIInv

LEMMA ReconnectIInv ==
  ASSUME IInv, NEW w \in Workers, _9000_reconnect_friends(w)
  PROVE  IInv'
<1>1. PICK U \in SUBSET Users : U = job.fsic_keys
  BY DEF IInv, TypeOK, MigrateServiceJob
<1>2. /\ worker[w] # Idle /\ worker' = [worker EXCEPT ![w] = Idle]
      /\ UNCHANGED <<job, account, history>>
      /\ tasks' = tasks \cup TasksFor("make", 9000, U)
  BY <1>1 DEF _9000_reconnect_friends, Schedules, At, TasksFor
<1>3. PICK B \in SUBSET Task :
        B = TasksFor("make", 9000, U) /\ \A b \in B : TaskInv(b)
  <2>1. CompleteBefore(9000)
    BY AtWork DEF _9000_reconnect_friends, Schedules, At, WorkerInv
  <2> QED
    BY <2>1, PhasesAre, TasksForType
<1>4. tasks' = tasks \cup B
  BY <1>2, <1>3
<1>5. history' \in HistoryType
  BY <1>2 DEF IInv, TypeOK, HistoryType
<1>6. /\ worker[w] # Idle /\ worker' = [worker EXCEPT ![w] = Idle]
      /\ UNCHANGED <<job, account>> /\ \A b \in B : TaskInv(b)
  BY <1>2, <1>3
<1> QED
  BY <1>4, <1>5, <1>6, SchedulesIInv

(* A worker that died is on the queue again. *)
LEMMA WorkerDiesIInv ==
  ASSUME IInv, NEW w \in Workers, WorkerDies(w)
  PROVE  IInv'
<1>1. /\ worker[w] # Idle /\ worker' = [worker EXCEPT ![w] = Idle]
      /\ tasks' = tasks \cup {worker[w].task}
      /\ LET p == worker[w].task.phase IN
           history' = [history EXCEPT !.died = @ \cup {p},
                                      !.diedTwice = @ \cup ({p} \cap history.died)]
      /\ UNCHANGED <<job, account>>
  BY DEF WorkerDies
<1>2. PICK t \in Task : t = worker[w].task /\ TaskInv(t) /\ t.phase \in ToSet(Phases)
  BY <1>1, AtWork DEF WorkerState, WorkerInv
<1>3. history' \in HistoryType
  <2>1. PICK p \in ToSet(Phases) : p = worker[w].task.phase
    BY <1>2
  <2>2. history' = [history EXCEPT !.died = @ \cup {p},
                                   !.diedTwice = @ \cup ({p} \cap history.died)]
    BY <1>1, <2>1
  <2>3. history \in HistoryType
    BY DEF IInv, TypeOK, HistoryType
  <2> QED
    BY <2>2, <2>3 DEF HistoryType
<1>4. tasks' = tasks \cup {t} /\ {t} \in SUBSET Task /\ \A b \in {t} : TaskInv(b)
  BY <1>1, <1>2
<1> QED
  BY <1>1, <1>3, <1>4, SchedulesIInv

(* A worker that failed on models that are gone is on the queue again. *)
LEMMA FailsIInv ==
  ASSUME IInv, NEW w \in Workers, _2500_fails(w)
  PROVE  IInv'
<1>1. /\ worker[w] # Idle /\ worker' = [worker EXCEPT ![w] = Idle]
      /\ tasks' = tasks \cup {worker[w].task}
      /\ UNCHANGED <<job, account, history>>
  BY DEF _2500_fails, At
<1>2. PICK t \in Task : t = worker[w].task /\ TaskInv(t)
  BY <1>1, AtWork DEF WorkerState, WorkerInv
<1>3. tasks' = tasks \cup {t} /\ {t} \in SUBSET Task /\ \A b \in {t} : TaskInv(b)
  BY <1>1, <1>2
<1>4. history' \in HistoryType
  BY <1>1 DEF IInv, TypeOK, HistoryType
<1> QED
  BY <1>1, <1>3, <1>4, SchedulesIInv

(* The last a worker does: all groups are moved, and no identity is left. *)
LEMMA NextPhaseIInv ==
  ASSUME IInv, NEW w \in Workers, _set_job_in_next_phase(w)
  PROVE  IInv'
<1>1. /\ worker[w] # Idle /\ worker[w].groups = <<>> /\ worker[w].left = {}
      /\ worker' = [worker EXCEPT ![w] = Idle]
      /\ UNCHANGED <<account, tasks, history>>
  BY DEF _set_job_in_next_phase
<1>2. PICK p \in ToSet(Phases) \ {Done} : p = worker[w].task.phase
  BY <1>1, AtWork
<1>3. TypeOK /\ WorkerInv(worker[w]) /\ job.phase # None
  BY <1>1, AtWork DEF IInv
<1>4. ToSet(Groups[p]) \subseteq moved
  BY <1>1, <1>2, <1>3 DEF WorkerInv, ToSet
<1>5. p # 4000
  BY <1>4, GroupIn DEF IInv, Waited
<1>6. p = 2500 => AtOld = {}
  BY <1>1, <1>2, <1>3 DEF WorkerInv
<1>7. Complete(p)
  <2>1. p = 1000 => ~enabled["old"]
    BY <1>4, GroupIn DEF IInv
  <2> QED
    BY <1>4, <1>5, <1>6, <2>1 DEF Complete
<1>8. SetPhase(p, PhaseAfter[p])
  BY <1>2 DEF _set_job_in_next_phase
<1>9. /\ job' \in MigrateServiceJob
      /\ \E n : job'.phase = n /\ (n = job.phase \/ CompleteBefore(n))
      /\ job'.phase # None
  BY <1>3, <1>7, <1>8, PhaseEnds
<1>10. worker' \in [Workers -> WorkerState]
  BY <1>1, <1>3, IdleType DEF TypeOK, WorkerState
<1>11. \A v \in Workers : worker'[v] \in {worker[v], Idle}
  BY <1>1, <1>3 DEF TypeOK
<1> QED
  BY <1>1, <1>3, <1>9, <1>10, <1>11, ServiceStep DEF TypeOK, HistoryType

-----------------------------------------------------------------------------
(* A friend is disconnected from the old service. *)
LEMMA BreakIInv ==
  ASSUME IInv, _break_friends
  PROVE  IInv'
<1>1. PICK t \in tasks :
        /\ friends' = [friends EXCEPT !["old"] = @ \ t.keys]
        /\ tasks' = tasks \ {t}
        /\ UNCHANGED <<job, enabled, roles, userData, serviceData, moved, worker, history>>
  BY DEF _break_friends
<1>2. TypeOK /\ job.phase # None
  BY <1>1 DEF IInv
<1>3. friends' \in [Accounts -> SUBSET Users] /\ friends'["old"] \subseteq friends["old"]
  BY <1>1, <1>2 DEF TypeOK, Accounts
<1>4. GoesOn
  BY <1>1, <1>3 DEF GoesOn, AtOld
<1>5. TypeOK'
  BY <1>1, <1>2, <1>3 DEF TypeOK
<1> QED
  BY <1>1, <1>2, <1>4, <1>5, StepIInv DEF IInv

(* What changes who is connected, to the old service while it is enabled, *)
(* and perhaps the job. *)
LEMMA NewFriendsIInv ==
  ASSUME IInv, UNCHANGED <<enabled, roles, serviceData, moved, worker, history>>,
         tasks' \subseteq tasks,
         friends' \in [Accounts -> SUBSET Users],
         enabled["old"] \/ friends'["old"] = friends["old"],
         userData' \in [Accounts -> SUBSET Users],
         job' \in MigrateServiceJob, job'.phase = job.phase,
         job.phase # None \/ UNCHANGED <<job, tasks>>
  PROVE  IInv'
<1>1. GoesOn
  BY DEF GoesOn, AtOld
<1>2. TypeOK'
  BY DEF IInv, TypeOK
<1> QED
  BY <1>1, <1>2, StepIInv DEF IInv

LEMMA JobForgets ==
  ASSUME NEW j \in MigrateServiceJob, NEW U
  PROVE  /\ [j EXCEPT !.fsic_keys = @ \ U] \in MigrateServiceJob
         /\ [j EXCEPT !.fsic_keys = @ \ U].phase = j.phase
  BY DEF MigrateServiceJob

(* A friend is connected to the new service, if he has a profile. *)
LEMMA MakeIInv ==
  ASSUME IInv, _make_friends
  PROVE  IInv'
<1>1. PICK t \in tasks :
        /\ t.fn = "make"
        /\ \/ /\ job' = [job EXCEPT !.fsic_keys = @ \ t.keys]
              /\ UNCHANGED <<friends, userData>>
           \/ /\ friends' = [friends EXCEPT !["new"] = @ \cup t.keys]
              /\ userData' = [userData EXCEPT !["new"] =
                                @ \cup (t.keys \cap job.user_datas)]
              /\ UNCHANGED job
        /\ tasks' = tasks \ {t}
        /\ UNCHANGED <<enabled, roles, serviceData, moved, worker, history>>
  BY DEF _make_friends
<1>2. TypeOK /\ job.phase # None /\ t.keys \subseteq Users
  BY <1>1 DEF IInv, TaskInv
<1>3. PICK j \in MigrateServiceJob : j = job /\ j.user_datas \subseteq Users
  BY <1>2 DEF TypeOK, MigrateServiceJob
<1>4. job' \in MigrateServiceJob /\ job'.phase = job.phase
  <2>1. CASE job' = job
    BY <1>3, <2>1
  <2>2. CASE job' = [job EXCEPT !.fsic_keys = @ \ t.keys]
    <3>1. job' = [j EXCEPT !.fsic_keys = @ \ t.keys]
      BY <1>3, <2>2
    <3>2. PICK U : U = t.keys
      OBVIOUS
    <3>3. job' = [j EXCEPT !.fsic_keys = @ \ U]
      BY <3>1, <3>2
    <3> QED
      BY <1>3, <3>3, JobForgets
  <2> QED
    BY <1>1, <2>1, <2>2
<1>5. friends' \in [Accounts -> SUBSET Users] /\ friends'["old"] = friends["old"]
  BY <1>1, <1>2 DEF TypeOK, Accounts
<1>6. userData' \in [Accounts -> SUBSET Users]
  BY <1>1, <1>2, <1>3 DEF TypeOK, Accounts
<1> QED
  BY <1>1, <1>2, <1>4, <1>5, <1>6, NewFriendsIInv

LEMMA LeavesIInv ==
  ASSUME IInv, NEW a \in Accounts, NEW u \in Users, Leaves(a, u) \/ Connects(a, u)
  PROVE  IInv'
<1>1. /\ UNCHANGED <<job, enabled, roles, userData, serviceData, moved, tasks, worker,
                     history>>
      /\ \/ friends' = [friends EXCEPT ![a] = @ \ {u}]
         \/ friends' = [friends EXCEPT ![a] = @ \cup {u}]
      /\ a = "new" \/ enabled["old"]
  BY DEF Leaves, Connects, Accounts
<1>2. /\ friends' \in [Accounts -> SUBSET Users]
      /\ enabled["old"] \/ friends'["old"] = friends["old"]
      /\ userData' \in [Accounts -> SUBSET Users] /\ job' \in MigrateServiceJob
  BY <1>1 DEF IInv, TypeOK, Accounts
<1> QED
  BY <1>1, <1>2, NewFriendsIInv

LEMMA StutterIInv ==
  ASSUME IInv, UNCHANGED vars
  PROVE  IInv'
<1>1. /\ friends' \in [Accounts -> SUBSET Users] /\ friends'["old"] = friends["old"]
      /\ userData' \in [Accounts -> SUBSET Users] /\ job' \in MigrateServiceJob
  BY DEF IInv, TypeOK, Accounts, vars
<1> QED
  BY <1>1, NewFriendsIInv DEF vars

LEMMA WorkerIInv ==
  ASSUME IInv, NEW w \in Workers, Step(w) \/ WorkerDies(w)
  PROVE  IInv'
<1>1. CASE \/ _4500_migrate_qrs(w) \/ _5000_migrate_non_ancestor_models(w)
           \/ _6000_migrate_ancestor_models(w) \/ _7000_migrate_solution(w)
  BY <1>1, MovesModelsIInv
     DEF _4500_migrate_qrs, _5000_migrate_non_ancestor_models,
         _6000_migrate_ancestor_models, _7000_migrate_solution
<1>2. CASE \/ Start(w) \/ _1000_disable_old_service(w) \/ _2000_get(w)
           \/ _2000_migrate_user_data(w) \/ _2250_cleanup_user_data(w)
           \/ _2500_migrate_service_data(w) \/ _2500_fails(w) \/ _3000_revoke_roles(w)
  BY <1>2, StartIInv, DisableIInv, GetIInv, MigrateUserDataIInv, CleanupIInv, ChunkIInv,
     FailsIInv, RevokeIInv
<1>3. CASE \/ _4000_disconnect_friends(w) \/ _8000_enable(w) \/ _8000_grant_roles(w)
           \/ _8000_finish_models(w) \/ _9000_reconnect_friends(w)
           \/ _set_job_in_next_phase(w) \/ WorkerDies(w)
  BY <1>3, DisconnectIInv, EnableIInv, GrantRolesIInv, FinishModelsIInv, ReconnectIInv,
     NextPhaseIInv, WorkerDiesIInv
<1> QED
  BY <1>1, <1>2, <1>3 DEF Step

LEMMA NextIInv == IInv /\ [Next]_vars => IInv'
<1> SUFFICES ASSUME IInv, [Next]_vars PROVE IInv'
  OBVIOUS
<1>1. CASE UNCHANGED vars
  BY <1>1, StutterIInv
<1>2. CASE migrate \/ controller \/ _break_friends \/ _make_friends
  BY <1>2, MigrateIInv, ControllerIInv, BreakIInv, MakeIInv
<1>3. CASE _4000_poll \/ _9000_poll
  BY <1>3, Poll4000IInv, Poll9000IInv
<1>4. CASE \E w \in Workers : Step(w) \/ WorkerDies(w)
  BY <1>4, WorkerIInv
<1>5. CASE \E a \in Accounts, u \in Users : Leaves(a, u) \/ Connects(a, u)
  BY <1>5, LeavesIInv
<1> QED
  BY <1>1, <1>2, <1>3, <1>4, <1>5 DEF Next

-----------------------------------------------------------------------------
(* The job, the accounts, the tasks and the workers have their types.      *)
THEOREM TypeCorrect == Spec => []TypeOK
<1>1. Spec => []IInv
  BY InitIInv, NextIInv, PTL DEF Spec
<1>2. IInv => TypeOK
  BY DEF IInv
<1> QED
  BY <1>1, <1>2, PTL

LEMMA AllIsMoved == CompleteBefore(8000) =>
  /\ Models \subseteq moved
  /\ friends["old"] = {}
  /\ \A i \in Identities : serviceData[i] # "old"
<1>1. {2500, 4000, 4500, 5000, 6000, 7000} \subseteq ToSet(Phases)
  BY PhasesAre
<1>2. CompleteBefore(8000) =>
        \A p \in {2500, 4000, 4500, 5000, 6000, 7000} : Complete(p)
  BY <1>1 DEF CompleteBefore
<1> QED
  BY <1>2 DEF Complete, Models, AtOld

(* However many workers run the same phase, and wherever they die, the new *)
(* service is not enabled before all its models and service data are moved *)
(* and nobody is connected to the old service (_8000_finish_models).       *)
THEOREM OnlyMovedIsEnabled == Spec => []EnabledWhenMoved
<1>1. Spec => []IInv
  BY InitIInv, NextIInv, PTL DEF Spec
<1>2. IInv => EnabledWhenMoved
  BY AllIsMoved DEF IInv, EnabledWhenMoved
<1> QED
  BY <1>1, <1>2, PTL

-----------------------------------------------------------------------------
(* Nothing is lost.  A phase that is not put on the queue twice has one    *)
(* task or worker, until the job leaves it.                                *)

TasksAt(p) == {t \in tasks : t.fn = "worker" /\ t.phase = p}
WorkersAt(p) == {w \in Workers : worker[w] # Idle /\ worker[w].task.phase = p}
Nobody(p) == TasksAt(p) = {} /\ WorkersAt(p) = {}

NotAhead ==
  /\ \A t \in tasks : t.fn \in {"controller", "worker"} => t.phase <= job.phase
  /\ \A w \in Workers : worker[w] # Idle => worker[w].task.phase <= job.phase

OneController ==
  \A s, t \in tasks : s.fn = "controller" /\ t.fn = "controller" => s = t

OneWorker(p) ==
  p \notin history.repeated =>
    /\ \A t \in tasks : t.fn = "controller" /\ t.phase < p => Nobody(p)
    /\ Nobody(p) \/ job.phase = p
    /\ \A s, t \in TasksAt(p) : s = t
    /\ \A v, w \in WorkersAt(p) : v = w
    /\ TasksAt(p) = {} \/ WorkersAt(p) = {}

Singles == {2000, 2500, 3000}

Queue == NotAhead /\ OneController /\ \A p \in Singles : OneWorker(p)

(* A role is taken from the old service before it is given at the new one. *)
RolesMove ==
  /\ Users \ NoProfile \subseteq roles["old"] \cup job.grants \cup history.forgotten
  /\ \A w \in WorkersAt(3000) : roles["old"] \subseteq worker[w].left
  /\ job.phase > 3000 => roles["old"] = {}
  /\ "grant_roles" \in moved =>
       /\ job.phase >= 8000
       /\ \/ Users \ NoProfile \subseteq roles["new"] \cup history.forgotten
          \/ 3000 \in history.repeated
  /\ job.phase > 8000 => "grant_roles" \in moved

(* UserData is deleted when it is in the job.                              *)
DataMoves ==
  /\ history.data \cap NoProfile = {}
  /\ history.data \subseteq job.fsic_keys
  /\ job.phase <= 2000 => history.data \subseteq userData["old"]
  /\ 2000 \notin history.repeated =>
       /\ \A w \in WorkersAt(2000) :
            /\ history.data \subseteq worker[w].left \cup worker[w].seen
            /\ worker[w].groups = <<>> => history.data \subseteq job.user_datas
       /\ job.phase > 2000 => history.data \subseteq job.user_datas

(* Whoever moves service data knows what is at the old service.            *)
ServiceMoves ==
  2500 \notin history.died \cup history.repeated =>
    /\ \A i \in Identities : serviceData[i] # "deleted"
    /\ \A t \in TasksAt(2500) :
         IF t.keys = {} THEN AtOld = Identities ELSE t.keys = AtOld
    /\ \A w \in WorkersAt(2500) : worker[w].left = AtOld
    /\ job.phase = None => AtOld = Identities
    /\ \A t \in tasks : t.fn = "controller" /\ t.phase < 2500 => AtOld = Identities

KInv == Queue /\ RolesMove /\ DataMoves /\ ServiceMoves

LEMMA PhasesGrow ==
  /\ \A p \in {None} \cup ToSet(Phases) : p \in Nat
  /\ \A p \in ToSet(Phases) \ {Done} : PhaseAfter[p] > p
<1>1. \A p \in {None} \cup ToSet(Phases) : p \in Nat
  BY PhasesAre DEF None, Done
<1>2. \A p \in ToSet(Phases) \ {Done} : PhaseAfter[p] > p
  BY PhasesAre DEF PhaseAfter, Phases, Done, None
<1> QED
  BY <1>1, <1>2

LEMMA PhaseIs ==
  ASSUME IInv
  PROVE  /\ job.phase \in Nat /\ job.phase \in {None} \cup ToSet(Phases)
         /\ \A t \in tasks : t.phase \in Nat
         /\ \A w \in Workers : worker[w].task.phase \in Nat
  BY PhasesGrow DEF IInv, TypeOK, MigrateServiceJob, Task

(* A worker goes on with its task, or has no task any more.                *)
Keeps(w) ==
  \/ worker'[w] \in {Idle, worker[w]}
  \/ /\ worker[w] # Idle /\ worker'[w].task = worker[w].task
     /\ worker[w].task.phase \notin Singles

TasksStay == \A t \in tasks' : t \in tasks \/ t.fn \notin {"controller", "worker"}

LEMMA KeptWorkers ==
  ASSUME \A w \in Workers : Keeps(w), NEW p \in Singles
  PROVE  /\ WorkersAt(p)' \subseteq WorkersAt(p)
         /\ \A w \in WorkersAt(p)' : worker'[w] = worker[w]
  BY DEF Keeps, WorkersAt

LEMMA QueueStays ==
  ASSUME IInv, Queue, TasksStay, job'.phase \in Nat, job.phase <= job'.phase,
         history.repeated \subseteq history'.repeated,
         \A w \in Workers : \/ worker'[w] = Idle
                            \/ worker[w] # Idle /\ worker'[w].task = worker[w].task,
         \A p \in Singles : job.phase = p /\ p \notin history'.repeated =>
                              job'.phase = p \/ Nobody(p)'
  PROVE  Queue'
<1>1. NotAhead'
  BY PhaseIs DEF Queue, NotAhead, TasksStay
<1>2. OneController'
  BY DEF Queue, OneController, TasksStay
<1>3. ASSUME NEW p \in Singles PROVE OneWorker(p)'
  <2>1. TasksAt(p)' \subseteq TasksAt(p) /\ WorkersAt(p)' \subseteq WorkersAt(p)
    BY DEF TasksAt, WorkersAt, TasksStay
  <2>2. Nobody(p) => Nobody(p)'
    BY <2>1 DEF Nobody
  <2>3. p \notin history'.repeated => Nobody(p)' \/ job'.phase = p
    BY <2>2 DEF Queue, OneWorker
  <2>4. OneWorker(p)
    BY DEF Queue
  <2>5. \A t \in tasks' : t.fn = "controller" => t \in tasks
    BY DEF TasksStay
  <2> QED
    BY <2>1, <2>2, <2>3, <2>4, <2>5 DEF OneWorker
<1> QED
  BY <1>1, <1>2, <1>3 DEF Queue

LEMMA RolesStay ==
  ASSUME IInv, RolesMove, job'.phase \in Nat, job.phase <= job'.phase,
         roles'["old"] = roles["old"], roles["new"] \subseteq roles'["new"],
         job.grants \subseteq job'.grants, history.forgotten \subseteq history'.forgotten,
         history.repeated \subseteq history'.repeated,
         \A w \in WorkersAt(3000)' : roles["old"] \subseteq worker'[w].left,
         job'.phase > 3000 => job.phase > 3000 \/ roles["old"] = {},
         moved \subseteq moved', "grant_roles" \in moved' => "grant_roles" \in moved,
         job'.phase > 8000 => job.phase > 8000 \/ "grant_roles" \in moved
  PROVE  RolesMove'
<1>1. job.phase \in Nat
  BY PhaseIs
<1>2. /\ Users \ NoProfile \subseteq roles'["old"] \cup job'.grants \cup history'.forgotten
      /\ job'.phase > 3000 => roles'["old"] = {}
      /\ job'.phase > 8000 => "grant_roles" \in moved'
  BY DEF RolesMove
<1>3. "grant_roles" \in moved' =>
        /\ job'.phase >= 8000
        /\ \/ Users \ NoProfile \subseteq roles'["new"] \cup history'.forgotten
           \/ 3000 \in history'.repeated
  BY <1>1 DEF RolesMove
<1> QED
  BY <1>2, <1>3 DEF RolesMove

LEMMA DataStay ==
  ASSUME IInv, DataMoves, job'.phase \in Nat, job.phase <= job'.phase,
         history'.data = history.data, history.repeated \subseteq history'.repeated,
         job.fsic_keys \ NoProfile \subseteq job'.fsic_keys,
         job'.user_datas = job.user_datas,
         job'.phase <= 2000 => userData'["old"] = userData["old"],
         WorkersAt(2000)' \subseteq WorkersAt(2000),
         \A w \in WorkersAt(2000)' : worker'[w] = worker[w],
         2000 \notin history'.repeated /\ job'.phase > 2000 =>
           job.phase > 2000 \/ history.data \subseteq job.user_datas
  PROVE  DataMoves'
<1>1. job.phase \in Nat
  BY PhaseIs
<1>3. history'.data \cap NoProfile = {} /\ history'.data \subseteq job'.fsic_keys
  BY DEF DataMoves
<1>4. job'.phase <= 2000 => history'.data \subseteq userData'["old"]
  BY <1>1 DEF DataMoves
<1>5. ASSUME 2000 \notin history'.repeated
      PROVE  /\ \A w \in WorkersAt(2000)' :
                  /\ history'.data \subseteq worker'[w].left \cup worker'[w].seen
                  /\ worker'[w].groups = <<>> => history'.data \subseteq job'.user_datas
             /\ job'.phase > 2000 => history'.data \subseteq job'.user_datas
  BY <1>5 DEF DataMoves
<1> QED
  BY <1>3, <1>4, <1>5 DEF DataMoves

LEMMA ServiceStays ==
  ASSUME IInv, ServiceMoves, serviceData' = serviceData, TasksStay,
         history.died \subseteq history'.died,
         history.repeated \subseteq history'.repeated,
         job'.phase = None => job.phase = None,
         WorkersAt(2500)' \subseteq WorkersAt(2500),
         \A w \in WorkersAt(2500)' : worker'[w] = worker[w]
  PROVE  ServiceMoves'
<1>1. AtOld' = AtOld
  BY DEF AtOld
<1>2. TasksAt(2500)' \subseteq TasksAt(2500)
  BY DEF TasksAt, TasksStay
<1> QED
  BY <1>1, <1>2 DEF ServiceMoves, TasksStay

(* A step that moves no roles, user data or service data.                  *)
LEMMA FrameKInv ==
  ASSUME IInv, KInv, TasksStay, \A w \in Workers : Keeps(w),
         job'.phase = job.phase, job'.grants = job.grants,
         job'.user_datas = job.user_datas, job.fsic_keys \ NoProfile \subseteq job'.fsic_keys,
         job.phase <= 2000 => userData'["old"] = userData["old"],
         "grant_roles" \in moved' => "grant_roles" \in moved, moved \subseteq moved',
         UNCHANGED <<roles, serviceData, history>>
  PROVE  KInv'
<1>1. job.phase \in Nat /\ job'.phase \in Nat /\ job.phase <= job'.phase
  BY PhaseIs
<1>2. 2000 \in Singles /\ 2500 \in Singles /\ 3000 \in Singles
  BY DEF Singles
<1>3. \A p \in Singles : /\ WorkersAt(p)' \subseteq WorkersAt(p)
                         /\ \A w \in WorkersAt(p)' : worker'[w] = worker[w]
  BY KeptWorkers
<1>4. Queue'
  <2>1. \A w \in Workers : \/ worker'[w] = Idle
                           \/ worker[w] # Idle /\ worker'[w].task = worker[w].task
    BY DEF Keeps
  <2> QED
    BY <1>1, <2>1, QueueStays DEF KInv
<1>5. RolesMove'
  <2>1. \A w \in WorkersAt(3000)' : roles["old"] \subseteq worker'[w].left
    BY <1>2, <1>3 DEF KInv, RolesMove
  <2> QED
    BY <1>1, <2>1, RolesStay DEF KInv, RolesMove
<1>6. DataMoves'
  <2>1. history'.data = history.data /\ history.repeated \subseteq history'.repeated
    OBVIOUS
  <2>2. WorkersAt(2000)' \subseteq WorkersAt(2000) /\ \A w \in WorkersAt(2000)' : worker'[w] = worker[w]
    BY <1>2, <1>3
  <2> QED
    BY <1>1, <2>1, <2>2, DataStay DEF KInv
<1>7. ServiceMoves'
  <2>1. WorkersAt(2500)' \subseteq WorkersAt(2500) /\ \A w \in WorkersAt(2500)' : worker'[w] = worker[w]
    BY <1>2, <1>3
  <2> QED
    BY <2>1, ServiceStays DEF KInv
<1> QED
  BY <1>4, <1>5, <1>6, <1>7 DEF KInv

LEMMA MoveKeeps ==
  ASSUME IInv, NEW w \in Workers, NEW p, NEW g, Moves(w, p, g), p \notin Singles
  PROVE  /\ \A v \in Workers : Keeps(v)
         /\ moved' = moved \cup {g} /\ history' = history
         /\ w \in WorkersAt(p) /\ job.phase # None
<1>1. /\ worker[w] # Idle /\ worker[w].task.phase = p /\ worker[w].groups # <<>>
      /\ worker' = [worker EXCEPT ![w] = MoveOn(worker[w])]
      /\ moved' = moved \cup {g} /\ history' = history
  BY DEF Moves, At, MoveOn
<1>2. worker[w] \in WorkerState /\ job.phase # None
  BY <1>1, AtWork
<1>3. MoveOn(worker[w]).task = worker[w].task
  BY <1>1, <1>2, MovedOn
<1>4. \A v \in Workers : Keeps(v)
  BY <1>1, <1>3 DEF Keeps, IInv, TypeOK
<1> QED
  BY <1>1, <1>2, <1>4 DEF WorkersAt

(* The phases that move other models.                                      *)
LEMMA MovesModelsKInv ==
  ASSUME IInv, KInv, NEW w \in Workers, NEW p \in {4500, 5000, 6000, 7000},
         MovesModels(w, p)
  PROVE  KInv'
<1>1. PICK g \in ToSet(Groups[p]) : Moves(w, p, g)
  BY DEF MovesModels
<1>2. UNCHANGED <<job, enabled, friends, roles, userData, serviceData, tasks>>
  BY DEF MovesModels
<1>3. g # "grant_roles"
  <2>1. "grant_roles" \notin ToSet(Groups[4500]) /\ "grant_roles" \notin ToSet(Groups[5000])
    BY GroupsAre DEF ToSet
  <2>2. "grant_roles" \notin ToSet(Groups[6000]) /\ "grant_roles" \notin ToSet(Groups[7000])
    BY GroupsAre DEF ToSet
  <2> QED
    BY <2>1, <2>2
<1>4. p \notin Singles
  BY DEF Singles
<1>5. /\ \A v \in Workers : Keeps(v)
      /\ moved' = moved \cup {g} /\ history' = history
  BY <1>1, <1>4, MoveKeeps
<1> QED
  BY <1>2, <1>3, <1>5, FrameKInv DEF TasksStay

LEMMA DisableKInv ==
  ASSUME IInv, KInv, NEW w \in Workers,
         \/ _1000_disable_old_service(w) \/ _8000_enable(w) \/ _8000_finish_models(w)
  PROVE  KInv'
<1>1. PICK p \in {1000, 8000}, g \in {"profile", "enable", "customer", "owners"} :
        Moves(w, p, g)
  BY DEF _1000_disable_old_service, _8000_enable, _8000_finish_models
<1>2. UNCHANGED <<job, friends, roles, userData, serviceData, tasks>>
  BY DEF _1000_disable_old_service, _8000_enable, _8000_finish_models
<1>3. p \notin Singles
  BY DEF Singles
<1>4. /\ \A v \in Workers : Keeps(v)
      /\ moved' = moved \cup {g} /\ history' = history
  BY <1>1, <1>3, MoveKeeps
<1> QED
  BY <1>2, <1>4, FrameKInv DEF TasksStay

(* The clean-up is late enough: the UserData is in the job.                *)
LEMMA CleanupKInv ==
  ASSUME IInv, KInv, NEW w \in Workers, _2250_cleanup_user_data(w)
  PROVE  KInv'
<1>1. /\ Moves(w, 2250, "delete_user_data")
      /\ UNCHANGED <<job, enabled, friends, roles, serviceData, tasks>>
  BY DEF _2250_cleanup_user_data
<1>2. 2250 \notin Singles
  BY DEF Singles
<1>3. /\ \A v \in Workers : Keeps(v)
      /\ moved' = moved \cup {"delete_user_data"} /\ history' = history
      /\ w \in WorkersAt(2250)
  BY <1>1, <1>2, MoveKeeps
<1>4. job.phase \in Nat /\ job.phase >= 2250
  BY <1>3, PhaseIs DEF KInv, Queue, NotAhead, WorkersAt
<1>5. ~(job.phase <= 2000)
  BY <1>4
<1> QED
  BY <1>1, <1>3, <1>5, FrameKInv DEF TasksStay

LEMMA SchedulesKInv ==
  ASSUME IInv, KInv, NEW w \in Workers, NEW p, NEW g, NEW fn \in {"break", "make"},
         NEW U, Schedules(w, p, g, fn, U)
  PROVE  KInv'
<1>2. /\ worker' = [worker EXCEPT ![w] = Idle]
      /\ tasks' = tasks \cup {T(fn, p, {u}) : u \in U} \cup {T("poll", p, {})}
      /\ UNCHANGED <<job, account, history>>
  BY DEF Schedules
<1>3. \A v \in Workers : Keeps(v)
  BY <1>2 DEF Keeps, IInv, TypeOK
<1>4. TasksStay
  BY <1>2 DEF TasksStay, T
<1> QED
  BY <1>2, <1>3, <1>4, FrameKInv DEF account

(* Users that leave a service, or join it.                                 *)
LEMMA FriendsKInv ==
  ASSUME IInv, KInv,
         \/ _break_friends \/ _make_friends \/ UNCHANGED vars
         \/ \E a \in Accounts, u \in Users : Leaves(a, u) \/ Connects(a, u)
  PROVE  KInv'
<1>1. /\ tasks' \subseteq tasks
      /\ UNCHANGED <<enabled, roles, serviceData, moved, worker, history>>
  BY DEF _break_friends, _make_friends, vars, Leaves, Connects
<1>2. userData'["old"] = userData["old"]
  BY DEF _break_friends, _make_friends, vars, Leaves, Connects, IInv, TypeOK, Accounts
<1>4. /\ job'.phase = job.phase /\ job'.grants = job.grants
      /\ job'.user_datas = job.user_datas /\ job.fsic_keys \ NoProfile \subseteq job'.fsic_keys
  <2>1. CASE job' = job
    BY <2>1
  <2>2. CASE job' # job
    <3>1. PICK u : u \subseteq NoProfile /\ job' = [job EXCEPT !.fsic_keys = @ \ u]
      BY <2>2 DEF _break_friends, _make_friends, vars, Leaves, Connects
    <3>2. job \in MigrateServiceJob
      BY DEF IInv, TypeOK
    <3> QED
      BY <3>1, <3>2 DEF MigrateServiceJob
  <2> QED
    BY <2>1, <2>2
<1>5. \A v \in Workers : Keeps(v)
  BY <1>1 DEF Keeps
<1> QED
  BY <1>1, <1>2, <1>4, <1>5, FrameKInv DEF TasksStay

LEMMA ReconnectKInv ==
  ASSUME IInv, KInv, NEW w \in Workers,
         _4000_disconnect_friends(w) \/ _9000_reconnect_friends(w)
  PROVE  KInv'
  BY SchedulesKInv DEF _4000_disconnect_friends, _9000_reconnect_friends

LEMMA InitKInv == Init => KInv
<1> SUFFICES ASSUME Init PROVE KInv
  OBVIOUS
<1>1. /\ tasks = {} /\ \A w \in Workers : worker[w] = Idle
      /\ job.phase = 0 /\ None = 0 /\ moved = {} /\ AtOld = Identities
      /\ roles["old"] = Users \ NoProfile
      /\ \A i \in Identities : serviceData[i] = "old"
  BY DEF Init, None, AtOld, Accounts
<1>2. Queue
  BY <1>1 DEF Queue, NotAhead, OneController, OneWorker, TasksAt, WorkersAt, Nobody
<1>3. RolesMove
  BY <1>1 DEF RolesMove, WorkersAt
<1>4. DataMoves
  <2>1. PICK F \in SUBSET Users :
          /\ friends = [a \in Accounts |-> IF a = "old" THEN F ELSE {}]
          /\ userData = [a \in Accounts |-> IF a = "old" THEN F \ NoProfile ELSE {}]
          /\ history = [data |-> F \ NoProfile, forgotten |-> {}, died |-> {},
                        diedTwice |-> {}, repeated |-> {}]
    BY DEF Init
  <2>2. /\ friends["old"] = F /\ userData["old"] = F \ NoProfile
        /\ history.data = F \ NoProfile
    BY <2>1 DEF Accounts
  <2>3. job.fsic_keys = F
    BY <2>2 DEF Init
  <2> QED
    BY <1>1, <2>2, <2>3 DEF DataMoves, WorkersAt
<1>5. ServiceMoves
  BY <1>1 DEF ServiceMoves, TasksAt, WorkersAt
<1> QED
  BY <1>2, <1>3, <1>4, <1>5 DEF KInv

LEMMA MigrateKInv ==
  ASSUME IInv, KInv, migrate
  PROVE  KInv'
<1> DEFINE c == T("controller", None, {})
<1>1. /\ job.phase = None /\ tasks = {} /\ \A w \in Workers : worker[w] = Idle
      /\ tasks' = {c} /\ UNCHANGED <<account, worker, history>>
  BY DEF migrate, IInv
<1>2. /\ job'.phase = 1000 /\ job'.fsic_keys = job.fsic_keys
      /\ job'.grants = job.grants /\ job'.user_datas = job.user_datas
  BY DEF migrate, IInv, TypeOK, MigrateServiceJob
<1>3. c.fn = "controller" /\ c.phase = 0 /\ None = 0
  BY DEF T, None
<1> HIDE DEF c
<1>4. \A p : TasksAt(p)' = {} /\ WorkersAt(p)' = {}
  BY <1>1, <1>3 DEF TasksAt, WorkersAt
<1>5. Queue'
  <2>1. NotAhead' /\ OneController'
    BY <1>1, <1>2, <1>3 DEF NotAhead, OneController
  <2>2. \A p \in Singles : OneWorker(p)'
    BY <1>1, <1>4 DEF OneWorker, Nobody
  <2> QED
    BY <2>1, <2>2 DEF Queue
<1>6. RolesMove'
  BY <1>1, <1>2, <1>3, <1>4 DEF KInv, RolesMove, account
<1>7. DataMoves'
  BY <1>1, <1>2, <1>3, <1>4 DEF KInv, DataMoves, account
<1>8. ServiceMoves'
  <2>1. AtOld' = AtOld /\ serviceData' = serviceData
    BY <1>1 DEF AtOld, account
  <2> QED
    BY <1>1, <1>2, <1>3, <1>4, <2>1 DEF KInv, ServiceMoves
<1> QED
  BY <1>5, <1>6, <1>7, <1>8 DEF KInv

(* The task and the worker of a phase take turns.                          *)
LEMMA QueueMoves ==
  ASSUME IInv, Queue, NEW q, NotAhead', job'.phase = job.phase,
         history'.repeated = history.repeated,
         \A t \in tasks' : t.fn = "controller" => t \in tasks,
         \A p \in Singles \ {q} : /\ TasksAt(p)' \subseteq TasksAt(p)
                                  /\ WorkersAt(p)' \subseteq WorkersAt(p),
         q \in Singles /\ q \notin history.repeated =>
           /\ ~Nobody(q)
           /\ \A s, t \in TasksAt(q)' : s = t
           /\ \A v, w \in WorkersAt(q)' : v = w
           /\ TasksAt(q)' = {} \/ WorkersAt(q)' = {}
  PROVE  Queue'
<1>1. OneController'
  BY DEF Queue, OneController
<1>2. ASSUME NEW p \in Singles \ {q} PROVE OneWorker(p)'
  <2>1. Nobody(p) => Nobody(p)'
    BY DEF Nobody
  <2>2. OneWorker(p)
    BY DEF Queue
  <2>3. TasksAt(p)' \subseteq TasksAt(p) /\ WorkersAt(p)' \subseteq WorkersAt(p)
    OBVIOUS
  <2> QED
    BY <2>1, <2>2, <2>3 DEF OneWorker
<1>3. ASSUME q \in Singles PROVE OneWorker(q)'
  <2> SUFFICES ASSUME q \notin history.repeated PROVE OneWorker(q)'
    BY DEF OneWorker
  <2>1. /\ job.phase = q
        /\ \A t \in tasks : t.fn = "controller" => ~(t.phase < q)
    BY <1>3 DEF Queue, OneWorker
  <2> QED
    BY <1>3, <2>1 DEF OneWorker
<1> QED
  BY <1>1, <1>2, <1>3 DEF Queue

LEMMA ControllerKInv ==
  ASSUME IInv, KInv, controller
  PROVE  KInv'
<1>1. PICK t \in tasks :
        /\ t.fn = "controller"
        /\ \/ /\ job.phase = Done
              /\ tasks' = tasks \ {t}
              /\ UNCHANGED history
           \/ /\ job.phase \notin {Done, t.phase}
              /\ tasks' = (tasks \ {t}) \cup {T("worker", job.phase, {}),
                                              T("controller", job.phase, {})}
              /\ UNCHANGED history
           \/ /\ job.phase \notin {Done, t.phase}
              /\ job.phase \notin history.repeated /\ MayFail(job.phase)
              /\ tasks' = tasks \cup {T("worker", job.phase, {})}
              /\ history' = [history EXCEPT !.repeated = @ \cup {job.phase}]
        /\ UNCHANGED <<job, account, worker>>
  BY DEF controller
<1> DEFINE n == T("worker", job.phase, {})
           c == T("controller", job.phase, {})
<1>2. /\ job.phase \in Nat /\ t.phase \in Nat /\ t.phase <= job.phase
      /\ n.fn = "worker" /\ n.phase = job.phase /\ n.keys = {}
      /\ c.fn = "controller" /\ c.phase = job.phase
      /\ \A s \in tasks : s.fn = "controller" => s = t
  BY <1>1, PhaseIs DEF T, KInv, Queue, NotAhead, OneController
<1>3. /\ history'.data = history.data /\ history'.forgotten = history.forgotten
      /\ history'.died = history.died /\ history.repeated \subseteq history'.repeated
  BY <1>1 DEF IInv, TypeOK
<1>4. \A p : WorkersAt(p)' = WorkersAt(p)
  BY <1>1 DEF WorkersAt
<1>5. CASE job.phase = Done /\ tasks' = tasks \ {t} /\ UNCHANGED history
  <2>1. TasksStay
    BY <1>5 DEF TasksStay
  <2>2. \A v \in Workers : Keeps(v)
    BY <1>1 DEF Keeps
  <2> QED
    BY <1>1, <1>5, <2>1, <2>2, FrameKInv DEF account
<1>6. CASE \/ /\ job.phase \notin {Done, t.phase}
              /\ tasks' = (tasks \ {t}) \cup {n, c}
              /\ UNCHANGED history
           \/ /\ job.phase \notin {Done, t.phase}
              /\ tasks' = tasks \cup {n}
              /\ history' = [history EXCEPT !.repeated = @ \cup {job.phase}]
  <2> HIDE DEF n, c
  <2>1. t.phase < job.phase
    BY <1>2, <1>6
  <2>2. /\ \A s \in tasks' : s \in tasks \/ s = n \/ s = c
        /\ \A s \in tasks' : s.fn = "controller" =>
             s = c \/ (s = t /\ job.phase \in history'.repeated)
    <3>1. CASE tasks' = (tasks \ {t}) \cup {n, c}
      <4>1. \A s \in tasks' : s \in tasks \ {t} \/ s = n \/ s = c
        BY <3>1
      <4>2. \A s \in tasks \ {t} : s.fn # "controller"
        BY <1>2
      <4>3. n.fn # "controller"
        BY <1>2
      <4> QED
        BY <4>1, <4>2, <4>3
    <3>2. CASE /\ tasks' = tasks \cup {n}
               /\ history' = [history EXCEPT !.repeated = @ \cup {job.phase}]
      <4>1. job.phase \in history'.repeated
        BY <3>2 DEF IInv, TypeOK
      <4> QED
        BY <1>2, <3>2, <4>1
    <3> QED
      BY <1>6, <3>1, <3>2
  <2>3. \A s1, s2 \in tasks' : s1.fn = "controller" /\ s2.fn = "controller" => s1 = s2
    BY <1>2, <1>6
  <2>4. Queue'
    <3>1. NotAhead'
      BY <1>1, <1>2, <2>2 DEF KInv, Queue, NotAhead
    <3>2. ASSUME NEW p \in Singles, p \notin history'.repeated PROVE OneWorker(p)'
      <4>1. OneWorker(p) /\ p \notin history.repeated
        BY <1>3, <3>2 DEF KInv, Queue
      <4>2. CASE p = job.phase
        <5>1. Nobody(p)
          BY <1>1, <2>1, <4>1, <4>2 DEF OneWorker
        <5>2. TasksAt(p)' \subseteq {n} /\ WorkersAt(p)' = {}
          BY <1>2, <1>4, <2>2, <5>1 DEF Nobody, TasksAt
        <5>3. \A s \in tasks' : s.fn = "controller" => ~(s.phase < p)
          BY <1>2, <2>2, <3>2, <4>2
        <5> QED
          BY <1>1, <4>2, <5>2, <5>3 DEF OneWorker
      <4>3. CASE p # job.phase
        <5>1. TasksAt(p)' \subseteq TasksAt(p) /\ Nobody(p)
          BY <1>2, <2>2, <4>1, <4>3 DEF TasksAt, OneWorker
        <5>2. Nobody(p)'
          BY <1>4, <5>1 DEF Nobody
        <5> QED
          BY <5>2 DEF OneWorker, Nobody
      <4> QED
        BY <4>2, <4>3
    <3> QED
      BY <2>3, <3>1, <3>2 DEF Queue, OneController, OneWorker
  <2>5. RolesMove'
    BY <1>1, <1>3, <1>4 DEF KInv, RolesMove, account
  <2>6. DataMoves'
    BY <1>1, <1>3, <1>4 DEF KInv, DataMoves, account
  <2>7. ServiceMoves'
    <3> SUFFICES ASSUME 2500 \notin history'.died \cup history'.repeated
                 PROVE  ServiceMoves'
      BY DEF ServiceMoves
    <3>1. AtOld' = AtOld /\ serviceData' = serviceData
      BY <1>1 DEF AtOld, account
    <3>2. /\ \A i \in Identities : serviceData[i] # "deleted"
          /\ \A s \in TasksAt(2500) : IF s.keys = {} THEN AtOld = Identities ELSE s.keys = AtOld
          /\ \A w \in WorkersAt(2500) : worker[w].left = AtOld
          /\ job.phase = None => AtOld = Identities
          /\ t.phase < 2500 => AtOld = Identities
      BY <1>1, <1>3 DEF KInv, ServiceMoves
    <3>3. \A s \in TasksAt(2500)' :
            IF s.keys = {} THEN AtOld = Identities ELSE s.keys = AtOld
      <4>1. ASSUME NEW s \in TasksAt(2500)', s \notin TasksAt(2500)
            PROVE  s = n /\ AtOld = Identities
        <5>1. s = n
          BY <1>2, <2>2, <4>1 DEF TasksAt
        <5>2. job.phase = 2500
          BY <1>2, <5>1 DEF TasksAt
        <5> QED
          BY <2>1, <3>2, <5>1, <5>2
      <4> QED
        BY <1>2, <3>2, <4>1
    <3>4. \A s \in tasks' : s.fn = "controller" /\ s.phase < 2500 => AtOld = Identities
      BY <1>2, <2>1, <2>2, <3>2
    <3> QED
      BY <1>1, <1>4, <3>1, <3>2, <3>3, <3>4 DEF ServiceMoves
  <2> QED
    BY <2>4, <2>5, <2>6, <2>7 DEF KInv
<1> QED
  BY <1>1, <1>5, <1>6

LEMMA PollsKInv ==
  ASSUME IInv, KInv, _4000_poll \/ _9000_poll
  PROVE  KInv'
<1>1. PICK p \in {4000, 9000} :
        /\ tasks' \subseteq tasks
        /\ job' = job \/ (job.phase = p /\ job' = [job EXCEPT !.phase = PhaseAfter[p]])
        /\ UNCHANGED <<account, worker, history>>
  <2>1. ASSUME NEW p, NEW finished, Polls(p, finished)
        PROVE  /\ tasks' \subseteq tasks
               /\ job' = job \/ (job.phase = p /\ job' = [job EXCEPT !.phase = PhaseAfter[p]])
               /\ UNCHANGED <<account, worker, history>>
    <3>1. SetPhase(p, PhaseAfter[p]) \/ job' = job
      BY <2>1 DEF Polls
    <3>2. tasks' \subseteq tasks /\ UNCHANGED <<account, worker, history>>
      BY <2>1 DEF Polls
    <3> QED
      BY <3>1, <3>2 DEF SetPhase
  <2>2. Polls(4000, friends["old"] = {}) \/ Polls(9000, FriendCountIsExpected)
    BY DEF _4000_poll, _9000_poll
  <2>3. CASE Polls(4000, friends["old"] = {})
    BY <2>1, <2>3
  <2>4. CASE Polls(9000, FriendCountIsExpected)
    BY <2>1, <2>4
  <2> QED
    BY <2>2, <2>3, <2>4
<1>2. /\ job.phase \in Nat /\ 4000 \notin Singles /\ 9000 \notin Singles
      /\ p \in ToSet(Phases) \ {Done} /\ 8000 \in ToSet(Phases)
  BY PhaseIs, PhasesAre DEF Singles, Done
<1>3. /\ job'.phase = job.phase \/ (job.phase = p /\ job'.phase = PhaseAfter[p])
      /\ job'.fsic_keys = job.fsic_keys /\ job'.grants = job.grants
      /\ job'.user_datas = job.user_datas
  BY <1>1 DEF IInv, TypeOK, MigrateServiceJob
<1>4. /\ PhaseAfter[p] \in Nat /\ PhaseAfter[p] > p
      /\ 8000 < PhaseAfter[p] => 8000 < p \/ 8000 = p
  BY <1>2, NextPhase, PhasesGrow
<1>5. /\ job'.phase \in Nat /\ job.phase <= job'.phase
      /\ job'.phase > 3000 => job.phase > 3000
      /\ job'.phase > 8000 => job.phase > 8000
      /\ job'.phase > 2000 => job.phase > 2000
      /\ job'.phase = None => job.phase = None
  BY <1>1, <1>2, <1>3, <1>4 DEF None
<1>6. Queue'
  <2>1. \A q \in Singles : job.phase = q => job'.phase = q
    BY <1>1, <1>2, <1>3
  <2> QED
    BY <1>1, <1>5, <2>1, QueueStays DEF KInv, TasksStay, Queue, NotAhead
<1>7. \A q : WorkersAt(q)' = WorkersAt(q)
  BY <1>1 DEF WorkersAt
<1>8. RolesMove'
  BY <1>1, <1>3, <1>5, <1>7, RolesStay DEF KInv, RolesMove, account
<1>9. DataMoves'
  BY <1>1, <1>3, <1>5, <1>7, DataStay DEF KInv, account, None
<1>10. ServiceMoves'
  BY <1>1, <1>5, <1>7, ServiceStays DEF KInv, account, TasksStay
<1> QED
  BY <1>6, <1>8, <1>9, <1>10 DEF KInv

(* A worker ends its phase, and the job goes on to the next.               *)
LEMMA NextPhaseKInv ==
  ASSUME IInv, KInv, NEW w \in Workers, _set_job_in_next_phase(w)
  PROVE  KInv'
<1> DEFINE q == worker[w].task.phase
<1>1. /\ worker[w] # Idle /\ worker[w].groups = <<>> /\ worker[w].left = {}
      /\ worker' = [worker EXCEPT ![w] = Idle]
      /\ UNCHANGED <<account, tasks, history>>
      /\ job' = job \/ (job.phase = q /\ job' = [job EXCEPT !.phase = PhaseAfter[q]])
  <2>1. /\ worker[w] # Idle /\ worker[w].groups = <<>> /\ worker[w].left = {}
        /\ worker' = [worker EXCEPT ![w] = Idle]
        /\ UNCHANGED <<account, tasks, history>>
        /\ SetPhase(q, PhaseAfter[q])
    BY DEF _set_job_in_next_phase
  <2> HIDE DEF q
  <2>2. job' = job \/ (job.phase = q /\ job' = [job EXCEPT !.phase = PhaseAfter[q]])
    BY <2>1 DEF SetPhase
  <2> QED
    BY <2>1, <2>2
<1>2. /\ q \in ToSet(Phases) \ {Done} /\ WorkerInv(worker[w]) /\ job.phase \in Nat
      /\ q \in Nat /\ w \in WorkersAt(q) /\ job.phase # None
  BY <1>1, AtWork, PhaseIs, PhasesGrow DEF WorkersAt
<1>3. /\ job'.phase = job.phase \/ (job.phase = q /\ job'.phase = PhaseAfter[q])
      /\ job'.fsic_keys = job.fsic_keys /\ job'.grants = job.grants
      /\ job'.user_datas = job.user_datas
  BY <1>1 DEF IInv, TypeOK, MigrateServiceJob
<1>4. /\ PhaseAfter[q] \in Nat /\ PhaseAfter[q] > q
      /\ \A r \in {2000, 3000, 8000} : r < PhaseAfter[q] => r < q \/ r = q
  <2>1. {2000, 3000, 8000} \subseteq ToSet(Phases)
    BY PhasesAre
  <2> QED
    BY <1>2, <2>1, NextPhase, PhasesGrow
<1>5. /\ \A v \in Workers : v = w \/ worker'[v] = worker[v]
      /\ worker'[w] = Idle
      /\ \A r : WorkersAt(r)' = WorkersAt(r) \ {w}
  BY <1>1 DEF IInv, TypeOK, WorkersAt
<1> HIDE DEF q
<1>6. /\ job'.phase \in Nat /\ job.phase <= job'.phase /\ job'.phase # None
      /\ \A r \in {2000, 3000, 8000} : job'.phase > r => job.phase > r \/ q = r
  BY <1>2, <1>3, <1>4 DEF None
<1>7. Queue'
  <2>1. ASSUME NEW p \in Singles, job.phase = p, p \notin history'.repeated, job'.phase # p
        PROVE  Nobody(p)'
    <3>1. q = p
      BY <1>3, <2>1
    <3>2. WorkersAt(p) = {w} /\ TasksAt(p) = {}
      BY <1>1, <1>2, <2>1, <3>1 DEF KInv, Queue, OneWorker
    <3> QED
      BY <1>1, <1>5, <3>2 DEF Nobody, TasksAt
  <2>2. \A v \in Workers : \/ worker'[v] = Idle
                           \/ worker[v] # Idle /\ worker'[v].task = worker[v].task
    BY <1>5
  <2>3. history.repeated \subseteq history'.repeated /\ TasksStay
    BY <1>1 DEF TasksStay
  <2> QED
    BY <1>6, <2>1, <2>2, <2>3, QueueStays DEF KInv
<1>8. RolesMove'
  <2>1. job'.phase > 3000 => job.phase > 3000 \/ roles["old"] = {}
    BY <1>1, <1>2, <1>6 DEF KInv, RolesMove
  <2>2. job'.phase > 8000 => job.phase > 8000 \/ "grant_roles" \in moved
    <3>1. q = 8000 => "grant_roles" \in ToSet(Groups[8000])
      BY GroupsAre DEF ToSet
    <3>2. ToSet(<<>>) = {}
      BY DEF ToSet
    <3>3. q = 8000 => "grant_roles" \in moved
      BY <1>1, <1>2, <3>1, <3>2 DEF WorkerInv, q
    <3> QED
      BY <1>6, <3>3
  <2>3. \A v \in WorkersAt(3000)' : roles["old"] \subseteq worker'[v].left
    BY <1>5 DEF KInv, RolesMove, WorkersAt
  <2> QED
    BY <1>1, <1>3, <1>6, <2>1, <2>2, <2>3, RolesStay DEF KInv, account
<1>9. DataMoves'
  <2>1. 2000 \notin history'.repeated /\ job'.phase > 2000 =>
          job.phase > 2000 \/ history.data \subseteq job.user_datas
    BY <1>1, <1>2, <1>6 DEF KInv, DataMoves
  <2>2. /\ WorkersAt(2000)' \subseteq WorkersAt(2000)
        /\ \A v \in WorkersAt(2000)' : worker'[v] = worker[v]
    BY <1>5 DEF WorkersAt
  <2> QED
    BY <1>1, <1>2, <1>3, <1>6, <2>1, <2>2, DataStay DEF KInv, account
<1>10. ServiceMoves'
  <2>1. /\ WorkersAt(2500)' \subseteq WorkersAt(2500)
        /\ \A v \in WorkersAt(2500)' : worker'[v] = worker[v]
    BY <1>5 DEF WorkersAt
  <2> QED
    BY <1>1, <1>6, <2>1, ServiceStays DEF KInv, account, TasksStay
<1> QED
  BY <1>7, <1>8, <1>9, <1>10 DEF KInv

(* A worker takes a task, or finds that it is late.                        *)
LEMMA StartKInv ==
  ASSUME IInv, KInv, NEW w \in Workers, Start(w)
  PROVE  KInv'
<1>1. PICK t \in tasks :
        /\ t.fn = "worker" /\ worker[w] = Idle
        /\ tasks' = tasks \ {t}
        /\ worker' = [worker EXCEPT ![w] = IF job.phase = t.phase THEN Work(t) ELSE Idle]
        /\ UNCHANGED <<job, account, history>>
  BY DEF Start
<1> DEFINE q == t.phase
<1>2. /\ worker \in [Workers -> WorkerState] /\ job.phase \in Nat /\ q \in Nat
      /\ q <= job.phase /\ t \in TasksAt(q) /\ t \in Task
  BY <1>1, PhaseIs DEF IInv, TypeOK, WorkerState, KInv, Queue, NotAhead, TasksAt
<1>3. /\ Work(t).task = t /\ Work(t).groups = Groups[q]
      /\ q = 2500 => Work(t).left = IF t.keys = {} THEN Identities ELSE t.keys
  BY <1>1, WorkType
<1>4. CASE job.phase # q
  <2>1. \A v \in Workers : Keeps(v)
    BY <1>1, <1>2, <1>4 DEF Keeps
  <2> QED
    BY <1>1, <2>1, FrameKInv DEF account, TasksStay
<1>5. CASE job.phase = q
  <2>1. /\ worker'[w] = Work(t) /\ \A v \in Workers \ {w} : worker'[v] = worker[v]
    BY <1>1, <1>2, <1>5
  <2>2. /\ q = 2000 => Work(t).left = job.fsic_keys
        /\ q = 3000 => Work(t).left = roles["old"]
    BY DEF Work
  <2> HIDE DEF q
  <2>3. /\ \A p : p # q => TasksAt(p)' \subseteq TasksAt(p) /\ WorkersAt(p)' \subseteq WorkersAt(p)
        /\ WorkersAt(q)' \subseteq WorkersAt(q) \cup {w}
        /\ TasksAt(q)' = TasksAt(q) \ {t}
    BY <1>1, <1>3, <2>1 DEF TasksAt, WorkersAt, q
  <2>4. w \notin WorkersAt(q)
    BY <1>1 DEF WorkersAt
  <2>5. Queue'
    <3>1. NotAhead'
      BY <1>1, <1>2, <1>3, <1>5, <2>1 DEF KInv, Queue, NotAhead, q
    <3>2. ASSUME q \in Singles, q \notin history.repeated
          PROVE  /\ ~Nobody(q) /\ \A s1, s2 \in TasksAt(q)' : s1 = s2
                 /\ \A v1, v2 \in WorkersAt(q)' : v1 = v2
                 /\ TasksAt(q)' = {} \/ WorkersAt(q)' = {}
      <4>1. TasksAt(q) = {t} /\ WorkersAt(q) = {}
        BY <1>2, <3>2 DEF KInv, Queue, OneWorker
      <4> QED
        BY <2>3, <4>1 DEF Nobody
    <3> QED
      BY <1>1, <2>3, <3>1, <3>2, QueueMoves DEF KInv
  <2>6. RolesMove'
    <3>1. \A v \in WorkersAt(3000)' : roles["old"] \subseteq worker'[v].left
      <4>1. ASSUME NEW v \in WorkersAt(3000)' PROVE roles["old"] \subseteq worker'[v].left
        <5>1. CASE v = w
          <6>1. q = 3000
            BY <1>3, <2>1, <4>1, <5>1 DEF WorkersAt, q
          <6> QED
            BY <2>1, <2>2, <5>1, <6>1
        <5>2. CASE v # w
          BY <2>1, <4>1, <5>2 DEF KInv, RolesMove, WorkersAt
        <5> QED
          BY <5>1, <5>2
      <4> QED
        BY <4>1
    <3> QED
      BY <1>1, <1>2, <3>1, RolesStay DEF KInv, account
  <2>7. DataMoves'
    <3>1. ASSUME NEW v \in WorkersAt(2000)', 2000 \notin history.repeated
          PROVE  /\ history.data \subseteq worker'[v].left \cup worker'[v].seen
                 /\ worker'[v].groups = <<>> => history.data \subseteq job.user_datas
      <4>1. CASE v = w
        <5>1. q = 2000
          BY <1>3, <2>1, <3>1, <4>1 DEF WorkersAt, q
        <5>2. worker'[v].groups # <<>>
          BY <1>3, <2>1, <4>1, <5>1, GroupsAre
        <5>3. history.data \subseteq job.fsic_keys
          BY <1>5, <5>1 DEF KInv, DataMoves, None
        <5> QED
          BY <2>1, <2>2, <4>1, <5>1, <5>2, <5>3
      <4>2. CASE v # w
        <5>1. v \in WorkersAt(2000) /\ worker'[v] = worker[v]
          BY <2>1, <3>1, <4>2 DEF WorkersAt
        <5> QED
          BY <3>1, <5>1 DEF KInv, DataMoves
      <4> QED
        BY <4>1, <4>2
    <3> QED
      BY <1>1, <3>1 DEF KInv, DataMoves, account
  <2>8. ServiceMoves'
    <3> SUFFICES ASSUME 2500 \notin history.died \cup history.repeated
                 PROVE  ServiceMoves'
      BY <1>1 DEF ServiceMoves
    <3>1. AtOld' = AtOld /\ serviceData' = serviceData
      BY <1>1 DEF AtOld, account
    <3>2. ASSUME NEW v \in WorkersAt(2500)' PROVE worker'[v].left = AtOld
      <4>1. CASE v = w
        <5>1. q = 2500
          BY <1>3, <2>1, <3>2, <4>1 DEF WorkersAt, q
        <5>2. IF t.keys = {} THEN AtOld = Identities ELSE t.keys = AtOld
          BY <1>2, <5>1 DEF KInv, ServiceMoves
        <5> QED
          BY <1>3, <2>1, <4>1, <5>1, <5>2
      <4>2. CASE v # w
        BY <2>1, <3>2, <4>2 DEF KInv, ServiceMoves, WorkersAt
      <4> QED
        BY <4>1, <4>2
    <3>3. TasksAt(2500)' \subseteq TasksAt(2500)
      BY <1>1 DEF TasksAt
    <3> QED
      BY <1>1, <3>1, <3>2, <3>3 DEF KInv, ServiceMoves
  <2> QED
    BY <2>5, <2>6, <2>7, <2>8 DEF KInv
<1> QED
  BY <1>4, <1>5

(* A worker that goes on with its task leaves the queue and the workers of *)
(* the other phases as they are.                                           *)
LEMMA GoesOnWorkers ==
  ASSUME NEW q, NEW w, w \in WorkersAt(q), worker'[w].task = worker[w].task,
         \A v \in Workers : v = w \/ worker'[v] = worker[v],
         NEW p
  PROVE  /\ WorkersAt(p)' \subseteq WorkersAt(p)
         /\ p # q => \A v \in WorkersAt(p)' : worker'[v] = worker[v]
  BY DEF WorkersAt

LEMMA GoesOnQueue ==
  ASSUME IInv, Queue, NEW q, NEW w, w \in WorkersAt(q), worker'[w].task = worker[w].task,
         \A v \in Workers : v = w \/ worker'[v] = worker[v],
         TasksStay, job'.phase = job.phase, history'.repeated = history.repeated
  PROVE  Queue'
<1>1. w \in Workers /\ worker[w] # Idle
  BY DEF WorkersAt
<1>2. \A v \in Workers : \/ worker'[v] = Idle
                         \/ worker[v] # Idle /\ worker'[v].task = worker[v].task
  BY <1>1
<1>3. job.phase \in Nat /\ job'.phase \in Nat /\ job.phase <= job'.phase
  BY PhaseIs
<1> QED
  BY <1>2, <1>3, QueueStays

(* The worker of a single phase works while the job is in that phase.      *)
LEMMA OnTime ==
  ASSUME Queue, NEW q \in Singles, q \notin history.repeated, NEW w \in WorkersAt(q)
  PROVE  job.phase = q
  BY DEF Queue, OneWorker, Nobody

(* The worker of phase 2000 gets the UserData of a friend.                 *)
LEMMA GetKInv ==
  ASSUME IInv, KInv, NEW w \in Workers, _2000_get(w)
  PROVE  KInv'
<1>1. PICK u \in worker[w].left : GetsUserData(w, u)
  BY DEF _2000_get
<1>2. w \in WorkersAt(2000) /\ UNCHANGED <<job, account, tasks, history>>
  BY DEF _2000_get, At, WorkersAt
<1>3. worker[w] \in WorkerState
  BY DEF IInv, TypeOK, WorkerState
<1>4. PICK y :
        /\ worker' = [worker EXCEPT ![w] = y]
        /\ y.task = worker[w].task /\ y.groups = worker[w].groups
        /\ y.left = worker[w].left \ {u}
        /\ y.seen = worker[w].seen \cup (userData["old"] \cap {u})
  <2> DEFINE z == Read(worker[w], u, userData["old"] \cap {u})
  <2>1. /\ worker' = [worker EXCEPT ![w] = z]
        /\ z.task = worker[w].task /\ z.groups = worker[w].groups
        /\ z.left = worker[w].left \ {u}
        /\ z.seen = worker[w].seen \cup (userData["old"] \cap {u})
    BY <1>1, <1>3 DEF GetsUserData, Read, WorkerState
  <2> HIDE DEF z
  <2> QED
    BY <2>1
<1>5. TasksStay /\ job'.phase = job.phase /\ history'.repeated = history.repeated
  BY <1>2 DEF TasksStay
<1>6. /\ worker'[w] = y /\ worker'[w].task = worker[w].task
      /\ \A v \in Workers : v = w \/ worker'[v] = worker[v]
  BY <1>4 DEF IInv, TypeOK
<1>12. Queue'
  BY <1>2, <1>5, <1>6, GoesOnQueue DEF KInv
<1>7. /\ WorkersAt(2000)' \subseteq WorkersAt(2000)
      /\ WorkersAt(2500)' \subseteq WorkersAt(2500)
      /\ \A v \in WorkersAt(2500)' \cup WorkersAt(3000)' : worker'[v] = worker[v]
      /\ WorkersAt(3000)' \subseteq WorkersAt(3000)
  BY <1>2, <1>6, GoesOnWorkers
<1>8. job.phase \in Nat
  BY PhaseIs
<1>9. RolesMove'
  <2>1. \A v \in WorkersAt(3000)' : roles["old"] \subseteq worker'[v].left
    BY <1>7 DEF KInv, RolesMove
  <2> QED
    BY <1>2, <1>8, <2>1, RolesStay DEF KInv, account
<1>10. DataMoves'
  <2>1. ASSUME NEW v \in WorkersAt(2000)', 2000 \notin history.repeated
        PROVE  /\ history.data \subseteq worker'[v].left \cup worker'[v].seen
               /\ worker'[v].groups = <<>> => history.data \subseteq job.user_datas
    <3>1. v \in Workers /\ v \in WorkersAt(2000)
      BY <1>7, <2>1 DEF WorkersAt
    <3>2. /\ history.data \subseteq worker[v].left \cup worker[v].seen
          /\ worker[v].groups = <<>> => history.data \subseteq job.user_datas
      BY <2>1, <3>1 DEF KInv, DataMoves
    <3>3. history.data \subseteq userData["old"]
      BY <1>2, <2>1, <1>8, OnTime DEF KInv, DataMoves, Singles
    <3>4. CASE v = w
      BY <1>4, <1>6, <3>2, <3>3, <3>4
    <3>5. CASE v # w
      BY <1>6, <3>1, <3>2, <3>5
    <3> QED
      BY <3>4, <3>5
  <2> QED
    BY <1>2, <2>1 DEF KInv, DataMoves, account
<1>11. ServiceMoves'
  BY <1>2, <1>5, <1>7, ServiceStays DEF KInv, account
<1> QED
  BY <1>9, <1>10, <1>11, <1>12 DEF KInv

(* The worker has got the UserData of every friend, and stores it.         *)
LEMMA MigrateUserDataKInv ==
  ASSUME IInv, KInv, NEW w \in Workers, _2000_migrate_user_data(w)
  PROVE  KInv'
<1>1. /\ worker[w] # Idle /\ worker[w].task.phase = 2000 /\ worker[w].left = {}
      /\ worker' = [worker EXCEPT ![w] = MoveOn(worker[w])]
      /\ moved' = moved \cup {"store_user_data"} /\ history' = history
      /\ UNCHANGED <<enabled, friends, roles, userData, serviceData, tasks>>
  BY DEF _2000_migrate_user_data, Moves, At, MoveOn
<1>2. /\ job'.phase = job.phase /\ job'.grants = job.grants /\ job'.fsic_keys = job.fsic_keys
      /\ job'.user_datas = IF worker[w].seen = {} THEN job.user_datas ELSE worker[w].seen
  BY DEF _2000_migrate_user_data, IInv, TypeOK, MigrateServiceJob
<1>3. worker[w] \in WorkerState /\ w \in WorkersAt(2000) /\ job.phase \in Nat
  BY <1>1, PhaseIs DEF IInv, TypeOK, WorkerState, WorkersAt
<1>4. PICK y : /\ worker' = [worker EXCEPT ![w] = y] /\ y.task = worker[w].task
               /\ y.left = worker[w].left /\ y.seen = worker[w].seen
  <2> DEFINE z == MoveOn(worker[w])
  <2>1. /\ worker' = [worker EXCEPT ![w] = z] /\ z.task = worker[w].task
        /\ z.left = worker[w].left /\ z.seen = worker[w].seen
    BY <1>1, <1>3 DEF MoveOn, WorkerState
  <2> HIDE DEF z
  <2> QED
    BY <2>1
<1>5. TasksStay /\ history'.repeated = history.repeated
  BY <1>1 DEF TasksStay
<1>6. /\ worker'[w] = y /\ worker'[w].task = worker[w].task
      /\ \A v \in Workers : v = w \/ worker'[v] = worker[v]
  BY <1>4 DEF IInv, TypeOK
<1>11. Queue'
  BY <1>2, <1>3, <1>5, <1>6, GoesOnQueue DEF KInv
<1>7. /\ WorkersAt(2000)' \subseteq WorkersAt(2000)
      /\ WorkersAt(2500)' \subseteq WorkersAt(2500)
      /\ \A v \in WorkersAt(2500)' \cup WorkersAt(3000)' : worker'[v] = worker[v]
      /\ WorkersAt(3000)' \subseteq WorkersAt(3000)
  BY <1>3, <1>6, GoesOnWorkers
<1>8. RolesMove'
  <2>1. \A v \in WorkersAt(3000)' : roles["old"] \subseteq worker'[v].left
    BY <1>7 DEF KInv, RolesMove
  <2>2. "grant_roles" \in moved' => "grant_roles" \in moved
    BY <1>1
  <2> QED
    BY <1>1, <1>2, <1>3, <2>1, <2>2, RolesStay DEF KInv
<1>9. DataMoves'
  <2>1. ASSUME 2000 \notin history.repeated
        PROVE  /\ WorkersAt(2000)' \subseteq {w} /\ job.phase = 2000
               /\ history.data \subseteq y.seen /\ history.data \subseteq job'.user_datas
    <3>1. job.phase = 2000
      BY <1>3, <2>1, OnTime DEF KInv, Singles
    <3>2. WorkersAt(2000) \subseteq {w}
      BY <1>3, <2>1 DEF KInv, Queue, OneWorker, Singles
    <3>3. history.data \subseteq worker[w].seen
      BY <1>1, <1>3, <2>1 DEF KInv, DataMoves
    <3> QED
      BY <1>2, <1>4, <1>6, <1>7, <3>1, <3>2, <3>3
  <2> QED
    BY <1>1, <1>2, <1>6, <1>7, <2>1 DEF KInv, DataMoves
<1>10. ServiceMoves'
  BY <1>1, <1>2, <1>5, <1>7, ServiceStays DEF KInv
<1> QED
  BY <1>8, <1>9, <1>10, <1>11 DEF KInv

(* A chunk of the service data moves: the rest is left to the worker, or   *)
(* to the task that takes its place.                                       *)
LEMMA ChunkQueue ==
  ASSUME IInv, Queue, NEW w, w \in WorkersAt(2500), NEW n,
         n.fn = "worker", n.phase = 2500, tasks' = tasks \cup {n}, worker'[w] = Idle,
         \A v \in Workers : v = w \/ worker'[v] = worker[v],
         job' = job, history' = history
  PROVE  Queue'
<1>1. w \in Workers /\ worker[w] # Idle /\ worker[w].task.phase = 2500
  BY DEF WorkersAt
<1>2. NotAhead'
  BY <1>1 DEF Queue, NotAhead
<1>3. /\ \A p : WorkersAt(p)' \subseteq WorkersAt(p) \ {w}
      /\ \A p : p # 2500 => TasksAt(p)' \subseteq TasksAt(p)
      /\ TasksAt(2500)' \subseteq TasksAt(2500) \cup {n}
  BY <1>1 DEF WorkersAt, TasksAt
<1>4. ASSUME 2500 \in Singles, 2500 \notin history.repeated
      PROVE  /\ ~Nobody(2500)
             /\ \A s, t \in TasksAt(2500)' : s = t
             /\ \A u, v \in WorkersAt(2500)' : u = v
             /\ TasksAt(2500)' = {} \/ WorkersAt(2500)' = {}
  <2>1. TasksAt(2500) = {} /\ WorkersAt(2500) = {w}
    BY <1>4 DEF Queue, OneWorker
  <2> QED
    BY <1>3, <2>1 DEF Nobody
<1>5. \A t \in tasks' : t.fn = "controller" => t \in tasks
  OBVIOUS
<1>6. \A p \in Singles \ {2500} : /\ TasksAt(p)' \subseteq TasksAt(p)
                                  /\ WorkersAt(p)' \subseteq WorkersAt(p)
  BY <1>3
<1> QED
  BY <1>2, <1>4, <1>5, <1>6, QueueMoves

LEMMA ChunkKInv ==
  ASSUME IInv, KInv, NEW w \in Workers, _2500_migrate_service_data(w)
  PROVE  KInv'
<1>1. PICK chunk \in SUBSET worker[w].left : MigratesChunk(w, chunk)
  BY ChunkOf DEF _2500_migrate_service_data
<1>2. /\ w \in WorkersAt(2500) /\ worker[w] # Idle
      /\ UNCHANGED <<job, enabled, friends, roles, userData, moved, history>>
  BY DEF _2500_migrate_service_data, At, WorkersAt
<1>3. worker[w] \in WorkerState /\ job.phase \in Nat /\ job.phase # None
  BY <1>2, AtWork, PhaseIs
<1>4. PICK rest : rest = worker[w].left \ chunk
  OBVIOUS
<1>5. PICK n : n = T("worker", 2500, rest)
  OBVIOUS
<1>6. /\ serviceData' = [i \in Identities |->
           IF i \notin chunk THEN serviceData[i]
           ELSE IF serviceData[i] = "old" THEN "new" ELSE "deleted"]
      /\ tasks' = IF rest = {} THEN tasks ELSE tasks \cup {n}
  BY <1>1, <1>4, <1>5 DEF MigratesChunk
<1>7. /\ n.fn = "worker" /\ n.phase = 2500 /\ n.keys = rest
  BY <1>5 DEF T
<1>8. /\ \A v \in Workers : v = w \/ worker'[v] = worker[v]
      /\ rest # {} => worker'[w] = Idle
      /\ rest = {} => worker'[w].left = {} /\ worker'[w].task = worker[w].task
  <2>1. CASE rest = {}
    <3> DEFINE y == [worker[w] EXCEPT !.left = {}]
    <3>1. y.left = {} /\ y.task = worker[w].task
      BY <1>3 DEF WorkerState
    <3>2. worker' = [worker EXCEPT ![w] = y]
      BY <1>1, <1>4, <2>1 DEF MigratesChunk
    <3> HIDE DEF y
    <3> QED
      BY <2>1, <3>1, <3>2 DEF IInv, TypeOK
  <2>2. CASE rest # {}
    BY <1>1, <1>4, <2>2 DEF MigratesChunk, IInv, TypeOK
  <2> QED
    BY <2>1, <2>2
<1>9. Queue'
  <2>1. CASE rest = {}
    BY <1>2, <1>6, <1>8, <2>1, GoesOnQueue DEF KInv, TasksStay
  <2>2. CASE rest # {}
    BY <1>2, <1>6, <1>7, <1>8, <2>2, ChunkQueue DEF KInv
  <2> QED
    BY <2>1, <2>2
<1>10. /\ WorkersAt(2000)' \subseteq WorkersAt(2000)
       /\ \A v \in WorkersAt(2000)' : worker'[v] = worker[v]
       /\ \A v \in WorkersAt(3000)' : v \in WorkersAt(3000) /\ worker'[v] = worker[v]
  BY <1>2, <1>8 DEF WorkersAt
<1>11. RolesMove'
  <2>1. \A v \in WorkersAt(3000)' : roles["old"] \subseteq worker'[v].left
    BY <1>10 DEF KInv, RolesMove
  <2> QED
    BY <1>2, <1>3, <2>1, RolesStay DEF KInv
<1>12. DataMoves'
  BY <1>2, <1>3, <1>10, DataStay DEF KInv
<1>13. ServiceMoves'
  <2>1. CASE 2500 \in history.died \cup history.repeated
    BY <1>2, <2>1 DEF ServiceMoves
  <2>2. CASE 2500 \notin history.died \cup history.repeated
    <3>1. worker[w].left = AtOld /\ \A i \in Identities : serviceData[i] # "deleted"
      BY <1>2, <2>2 DEF KInv, ServiceMoves
    <3>2. /\ TasksAt(2500) = {} /\ WorkersAt(2500) = {w}
          /\ \A t \in tasks : t.fn = "controller" => ~(t.phase < 2500)
      BY <1>2, <2>2 DEF KInv, Queue, OneWorker, Singles, Nobody
    <3>3. AtOld' = rest /\ \A i \in Identities : serviceData'[i] # "deleted"
      BY <1>4, <1>6, <3>1 DEF AtOld
    <3>4. \A t \in TasksAt(2500)' : t.keys = rest /\ rest # {}
      BY <1>6, <1>7, <3>2 DEF TasksAt
    <3>5. ASSUME NEW v \in WorkersAt(2500)' PROVE worker'[v].left = rest
      <4>1. v \in Workers /\ worker'[v] # Idle /\ worker'[v].task.phase = 2500
        BY <3>5 DEF WorkersAt
      <4>2. v = w
        <5>1. v \notin WorkersAt(2500) \/ v = w
          BY <3>2
        <5> QED
          BY <1>8, <4>1, <5>1 DEF WorkersAt
      <4> QED
        BY <1>8, <4>1, <4>2
    <3>6. \A t \in tasks' : t.fn = "controller" => ~(t.phase < 2500)
      BY <1>6, <1>7, <3>2
    <3> QED
      BY <1>2, <1>3, <3>3, <3>4, <3>5, <3>6 DEF ServiceMoves
  <2> QED
    BY <2>1, <2>2
<1> QED
  BY <1>9, <1>11, <1>12, <1>13 DEF KInv

(* A role is revoked, and goes to the job or is forgotten.                 *)
LEMMA RevokeKInv ==
  ASSUME IInv, KInv, NEW w \in Workers, _3000_revoke_roles(w)
  PROVE  KInv'
<1>1. PICK u \in worker[w].left : Revokes(w, u)
  BY DEF _3000_revoke_roles
<1>2. /\ w \in WorkersAt(3000)
      /\ UNCHANGED <<enabled, friends, userData, serviceData, moved, tasks>>
  BY DEF _3000_revoke_roles, At, WorkersAt
<1>3. worker[w] \in WorkerState /\ job.phase \in Nat
  BY PhaseIs DEF IInv, TypeOK, WorkerState
<1>4. PICK y : /\ worker' = [worker EXCEPT ![w] = y]
               /\ y.task = worker[w].task /\ y.left = worker[w].left \ {u}
  <2> DEFINE z == Read(worker[w], u, {})
  <2>1. /\ worker' = [worker EXCEPT ![w] = z]
        /\ z.task = worker[w].task /\ z.left = worker[w].left \ {u}
    BY <1>1, <1>3 DEF Revokes, Read, WorkerState
  <2> HIDE DEF z
  <2> QED
    BY <2>1
<1>5. /\ worker'[w] = y /\ worker'[w].task = worker[w].task
      /\ \A v \in Workers : v = w \/ worker'[v] = worker[v]
  BY <1>4 DEF IInv, TypeOK
<1>6. roles'["old"] = roles["old"] \ {u}
  BY <1>1 DEF Revokes, Accounts
<1>7. /\ job'.phase = job.phase /\ job'.fsic_keys = job.fsic_keys
      /\ job'.user_datas = job.user_datas
      /\ history'.data = history.data /\ history'.died = history.died
      /\ history'.repeated = history.repeated
  BY <1>1 DEF Revokes, IInv, TypeOK, MigrateServiceJob
<1>8. /\ job.grants \subseteq job'.grants /\ history.forgotten \subseteq history'.forgotten
      /\ u \in job'.grants \cup history'.forgotten
  BY <1>1 DEF Revokes, IInv, TypeOK, MigrateServiceJob
<1>9. TasksStay
  BY <1>2 DEF TasksStay
<1>10. Queue'
  BY <1>2, <1>5, <1>7, <1>9, GoesOnQueue DEF KInv
<1>11. /\ WorkersAt(2000)' \subseteq WorkersAt(2000)
       /\ WorkersAt(2500)' \subseteq WorkersAt(2500)
       /\ WorkersAt(3000)' \subseteq WorkersAt(3000)
       /\ \A v \in WorkersAt(2000)' : worker'[v] = worker[v]
       /\ \A v \in WorkersAt(2500)' : worker'[v] = worker[v]
  BY <1>2, <1>5, GoesOnWorkers
<1>12. RolesMove'
  <2>1. Users \ NoProfile \subseteq roles'["old"] \cup job'.grants \cup history'.forgotten
    BY <1>6, <1>8 DEF KInv, RolesMove
  <2>2. ASSUME NEW v \in WorkersAt(3000)' PROVE roles'["old"] \subseteq worker'[v].left
    <3>1. v \in WorkersAt(3000) /\ v \in Workers
      BY <1>11, <2>2 DEF WorkersAt
    <3>2. roles["old"] \subseteq worker[v].left
      BY <3>1 DEF KInv, RolesMove
    <3>3. CASE v = w
      BY <1>4, <1>5, <1>6, <3>2, <3>3
    <3>4. CASE v # w
      BY <1>5, <1>6, <3>1, <3>2, <3>4
    <3> QED
      BY <3>3, <3>4
  <2>3. "grant_roles" \in moved => job.phase >= 8000 /\ 3000 \in history.repeated
    BY <1>2, <1>3, OnTime DEF KInv, RolesMove, Singles
  <2>4. /\ job'.phase > 3000 => roles'["old"] = {}
        /\ job'.phase > 8000 => "grant_roles" \in moved'
    BY <1>2, <1>6, <1>7 DEF KInv, RolesMove
  <2> QED
    BY <1>2, <1>7, <2>1, <2>2, <2>3, <2>4 DEF RolesMove
<1>13. DataMoves'
  BY <1>2, <1>3, <1>7, <1>11, DataStay DEF KInv
<1>14. ServiceMoves'
  BY <1>2, <1>7, <1>9, <1>11, ServiceStays DEF KInv
<1> QED
  BY <1>10, <1>12, <1>13, <1>14 DEF KInv

(* The roles in the job are granted: nobody has one at the old service.    *)
LEMMA GrantRolesKInv ==
  ASSUME IInv, KInv, NEW w \in Workers, _8000_grant_roles(w)
  PROVE  KInv'
<1>1. /\ Moves(w, 8000, "grant_roles") /\ 8000 \notin Singles
      /\ roles' = [roles EXCEPT !["new"] = @ \cup job.grants]
      /\ UNCHANGED <<job, enabled, friends, userData, serviceData, tasks>>
  BY DEF _8000_grant_roles, Singles
<1>2. /\ \A v \in Workers : Keeps(v)
      /\ moved' = moved \cup {"grant_roles"} /\ history' = history
      /\ w \in WorkersAt(8000)
  BY <1>1, MoveKeeps
<1>3. job.phase \in Nat /\ job.phase >= 8000
  BY <1>2, PhaseIs DEF KInv, Queue, NotAhead, WorkersAt
<1>4. roles'["old"] = roles["old"] /\ roles'["new"] = roles["new"] \cup job.grants
  BY <1>1 DEF IInv, TypeOK, Accounts
<1>5. /\ 2000 \in Singles /\ 2500 \in Singles /\ 3000 \in Singles /\ TasksStay
      /\ \A v \in Workers : \/ worker'[v] = Idle
                            \/ worker[v] # Idle /\ worker'[v].task = worker[v].task
  BY <1>1, <1>2 DEF Singles, TasksStay, Keeps
<1>6. \A p \in Singles : /\ WorkersAt(p)' \subseteq WorkersAt(p)
                         /\ \A v \in WorkersAt(p)' : worker'[v] = worker[v]
  BY <1>2, KeptWorkers
<1>7. Queue'
  BY <1>1, <1>2, <1>3, <1>5, QueueStays DEF KInv
<1>8. RolesMove'
  <2>1. roles["old"] = {}
    BY <1>3 DEF KInv, RolesMove
  <2>2. /\ Users \ NoProfile \subseteq job.grants \cup history.forgotten
        /\ \A v \in WorkersAt(3000)' : roles'["old"] \subseteq worker'[v].left
    BY <1>4, <2>1 DEF KInv, RolesMove
  <2> QED
    BY <1>1, <1>2, <1>3, <1>4, <2>1, <2>2 DEF RolesMove
<1>9. DataMoves'
  <2>1. WorkersAt(2000)' \subseteq WorkersAt(2000) /\ \A v \in WorkersAt(2000)' : worker'[v] = worker[v]
    BY <1>5, <1>6
  <2> QED
    BY <1>1, <1>2, <1>3, <2>1, DataStay DEF KInv
<1>10. ServiceMoves'
  <2>1. WorkersAt(2500)' \subseteq WorkersAt(2500) /\ \A v \in WorkersAt(2500)' : worker'[v] = worker[v]
    BY <1>5, <1>6
  <2> QED
    BY <1>1, <1>2, <1>5, <2>1, ServiceStays DEF KInv
<1> QED
  BY <1>7, <1>8, <1>9, <1>10 DEF KInv

(* The task of a worker that dies, or fails, is on the queue again.        *)
LEMMA RequeuedKInv ==
  ASSUME IInv, KInv, NEW w \in Workers, worker[w] # Idle,
         worker'[w] = Idle, \A v \in Workers : v = w \/ worker'[v] = worker[v],
         tasks' = tasks \cup {worker[w].task},
         UNCHANGED <<job, account>>,
         history'.data = history.data, history'.forgotten = history.forgotten,
         history'.repeated = history.repeated, history.died \subseteq history'.died,
         worker[w].task.phase = 2500 => 2500 \in history'.died \cup history'.repeated
  PROVE  KInv'
<1>2. PICK t : t = worker[w].task
  OBVIOUS
<1>3. PICK q : q = t.phase
  OBVIOUS
<1>4. /\ t.fn = "worker" /\ w \in WorkersAt(q) /\ job.phase # None
  BY <1>2, <1>3, AtWork DEF WorkerInv, WorkersAt
<1>6. /\ worker'[w] = Idle /\ \A v \in Workers : v = w \/ worker'[v] = worker[v]
  OBVIOUS
<1>7. /\ job.phase \in Nat /\ q \in Nat /\ q <= job.phase
  BY <1>2, <1>3, PhaseIs DEF KInv, Queue, NotAhead
<1>8. /\ \A p : WorkersAt(p)' \subseteq WorkersAt(p) \ {w}
      /\ \A p : p # q => TasksAt(p)' \subseteq TasksAt(p)
      /\ TasksAt(q)' \subseteq TasksAt(q) \cup {t}
      /\ \A p : \A v \in WorkersAt(p)' : worker'[v] = worker[v]
  BY <1>2, <1>3, <1>6 DEF WorkersAt, TasksAt
<1>9. Queue'
  <2>1. NotAhead'
    BY <1>2, <1>3, <1>6, <1>7 DEF KInv, Queue, NotAhead
  <2>2. ASSUME q \in Singles, q \notin history.repeated
        PROVE  /\ ~Nobody(q)
               /\ \A s1, s2 \in TasksAt(q)' : s1 = s2
               /\ \A u, v \in WorkersAt(q)' : u = v
               /\ TasksAt(q)' = {} \/ WorkersAt(q)' = {}
    <3>1. TasksAt(q) = {} /\ WorkersAt(q) = {w}
      BY <1>4, <2>2 DEF KInv, Queue, OneWorker
    <3> QED
      BY <1>8, <3>1 DEF Nobody
  <2>3. \A s \in tasks' : s.fn = "controller" => s \in tasks
    BY <1>2, <1>4
  <2>4. \A p \in Singles \ {q} : /\ TasksAt(p)' \subseteq TasksAt(p)
                                 /\ WorkersAt(p)' \subseteq WorkersAt(p)
    BY <1>8
  <2> QED
    BY <2>1, <2>2, <2>3, <2>4, QueueMoves DEF KInv
<1>10. RolesMove'
  <2>1. \A v \in WorkersAt(3000)' : roles["old"] \subseteq worker'[v].left
    BY <1>8 DEF KInv, RolesMove
  <2> QED
    BY <1>7, <2>1, RolesStay DEF KInv, account
<1>11. DataMoves'
  BY <1>4, <1>7, <1>8, DataStay DEF KInv, account
<1>12. ServiceMoves'
  <2> SUFFICES ASSUME 2500 \notin history'.died \cup history'.repeated PROVE ServiceMoves'
    BY DEF ServiceMoves
  <2>1. q # 2500 /\ 2500 \notin history.died \cup history.repeated
    BY <1>2, <1>3
  <2>2. TasksAt(2500)' \subseteq TasksAt(2500) /\ AtOld' = AtOld /\ serviceData' = serviceData
    BY <1>8, <2>1 DEF AtOld, account
  <2>3. \A v \in WorkersAt(2500)' : v \in WorkersAt(2500) /\ worker'[v] = worker[v]
    BY <1>8
  <2>4. \A s \in tasks' : s.fn = "controller" => s \in tasks
    BY <1>2, <1>4
  <2> QED
    BY <1>4, <2>1, <2>2, <2>3, <2>4 DEF KInv, ServiceMoves
<1> QED
  BY <1>9, <1>10, <1>11, <1>12 DEF KInv

LEMMA WorkerDiesKInv ==
  ASSUME IInv, KInv, NEW w \in Workers, WorkerDies(w)
  PROVE  KInv'
<1>1. /\ worker[w] # Idle /\ worker' = [worker EXCEPT ![w] = Idle]
      /\ tasks' = tasks \cup {worker[w].task}
      /\ UNCHANGED <<job, account>>
      /\ LET p == worker[w].task.phase IN
           history' = [history EXCEPT !.died = @ \cup {p},
                                      !.diedTwice = @ \cup ({p} \cap history.died)]
  BY DEF WorkerDies
<1>2. /\ history'.data = history.data /\ history'.forgotten = history.forgotten
      /\ history'.repeated = history.repeated
      /\ history'.died = history.died \cup {worker[w].task.phase}
  BY <1>1 DEF IInv, TypeOK
<1>3. /\ UNCHANGED <<job, account>> /\ history.died \subseteq history'.died
      /\ worker[w].task.phase = 2500 => 2500 \in history'.died \cup history'.repeated
  BY <1>1, <1>2
<1>4. /\ history'.data = history.data /\ history'.forgotten = history.forgotten
      /\ history'.repeated = history.repeated
  BY <1>1, <1>2
<1>5. /\ worker[w] # Idle /\ tasks' = tasks \cup {worker[w].task}
      /\ worker'[w] = Idle /\ \A v \in Workers : v = w \/ worker'[v] = worker[v]
  BY <1>1 DEF IInv, TypeOK
<1> QED
  BY <1>3, <1>4, <1>5, RequeuedKInv

(* Service data is gone only when a worker died or there were two.         *)
LEMMA FailsKInv ==
  ASSUME IInv, KInv, NEW w \in Workers, _2500_fails(w)
  PROVE  KInv'
<1>1. /\ worker[w] # Idle /\ worker' = [worker EXCEPT ![w] = Idle]
      /\ tasks' = tasks \cup {worker[w].task}
      /\ UNCHANGED <<job, account, history>>
      /\ w \in WorkersAt(2500) /\ ~MayMove(worker[w].left)
  BY DEF _2500_fails, At, WorkersAt
<1>2. 2500 \in history.died \cup history.repeated
  <2> SUFFICES ASSUME 2500 \notin history.died \cup history.repeated PROVE FALSE
    OBVIOUS
  <2>1. /\ worker[w].left = AtOld /\ AtOld \subseteq Identities
        /\ \A i \in Identities : serviceData[i] # "deleted"
    BY <1>1 DEF KInv, ServiceMoves, AtOld
  <2> QED
    BY <1>1, <2>1 DEF MayMove, Chunk
<1>3. /\ UNCHANGED <<job, account>> /\ history.died \subseteq history'.died
      /\ worker[w].task.phase = 2500 => 2500 \in history'.died \cup history'.repeated
  BY <1>1, <1>2
<1>4. /\ history'.data = history.data /\ history'.forgotten = history.forgotten
      /\ history'.repeated = history.repeated
  BY <1>1, <1>2
<1>5. /\ worker[w] # Idle /\ tasks' = tasks \cup {worker[w].task}
      /\ worker'[w] = Idle /\ \A v \in Workers : v = w \/ worker'[v] = worker[v]
  BY <1>1 DEF IInv, TypeOK
<1> QED
  BY <1>3, <1>4, <1>5, RequeuedKInv

LEMMA WorkerKInv ==
  ASSUME IInv, KInv, NEW w \in Workers, Step(w) \/ WorkerDies(w)
  PROVE  KInv'
<1>1. CASE \/ _4500_migrate_qrs(w) \/ _5000_migrate_non_ancestor_models(w)
           \/ _6000_migrate_ancestor_models(w) \/ _7000_migrate_solution(w)
  BY <1>1, MovesModelsKInv
     DEF _4500_migrate_qrs, _5000_migrate_non_ancestor_models,
         _6000_migrate_ancestor_models, _7000_migrate_solution
<1>2. CASE \/ _1000_disable_old_service(w) \/ _8000_enable(w) \/ _8000_finish_models(w)
  BY <1>2, DisableKInv
<1>3. CASE _4000_disconnect_friends(w) \/ _9000_reconnect_friends(w)
  BY <1>3, ReconnectKInv
<1>4. CASE \/ Start(w) \/ _2000_get(w) \/ _2000_migrate_user_data(w)
           \/ _2250_cleanup_user_data(w)
           \/ _2500_migrate_service_data(w) \/ _2500_fails(w)
  BY <1>4, StartKInv, GetKInv, MigrateUserDataKInv, CleanupKInv, ChunkKInv, FailsKInv
<1>5. CASE \/ _3000_revoke_roles(w) \/ _8000_grant_roles(w)
           \/ _set_job_in_next_phase(w) \/ WorkerDies(w)
  BY <1>5, RevokeKInv, GrantRolesKInv, NextPhaseKInv, WorkerDiesKInv
<1> QED
  BY <1>1, <1>2, <1>3, <1>4, <1>5 DEF Step

LEMMA NextKInv == IInv /\ KInv /\ [Next]_vars => KInv'
<1> SUFFICES ASSUME IInv, KInv, [Next]_vars PROVE KInv'
  OBVIOUS
<1>1. CASE \/ UNCHANGED vars \/ _break_friends \/ _make_friends
           \/ \E a \in Accounts, u \in Users : Leaves(a, u) \/ Connects(a, u)
  BY <1>1, FriendsKInv
<1>2. CASE migrate \/ controller
  BY <1>2, MigrateKInv, ControllerKInv
<1>3. CASE _4000_poll \/ _9000_poll
  BY <1>3, PollsKInv
<1>4. CASE \E w \in Workers : Step(w) \/ WorkerDies(w)
  BY <1>4, WorkerKInv
<1> QED
  BY <1>1, <1>2, <1>3, <1>4 DEF Next

-----------------------------------------------------------------------------
(* The job goes on.  The controller stays on the queue, behind the job or  *)
(* at its phase; and who is at its phase stays so, hands it to a task, or  *)
(* sets the next phase.                                                    *)

ControllersStay == \A c \in tasks : c.fn = "controller" => c \in tasks'

Break(u) == T("break", 4000, {u})
Poll4000 == T("poll", 4000, {})

BreaksStay ==
  /\ Poll4000 \in tasks => friends'["old"] \subseteq friends["old"]
  /\ \A u \in friends'["old"] : Break(u) \in tasks => Break(u) \in tasks'
  /\ Poll4000 \in tasks' =>
       Poll4000 \in tasks \/ \A u \in friends'["old"] : Break(u) \in tasks'

LEMMA WaitsForBreaks ==
  ASSUME JobGoesOn, BreaksStay
  PROVE  Poll4000 \in tasks' => \A u \in friends'["old"] : Break(u) \in tasks'
<1>1. Poll4000 \in tasks => \A u \in friends["old"] : Break(u) \in tasks
  BY DEF JobGoesOn, Break, Poll4000
<1> QED
  BY <1>1 DEF BreaksStay

LEMMA PhaseStays ==
  ASSUME JobGoesOn, BreaksStay, ControllersStay, job'.phase = job.phase,
         \A t \in tasks : t.fn \in {"worker", "poll"} /\ t.phase = job.phase =>
                            t \in tasks' \/ IsWorkedOn',
         \A w \in Workers : At(w, job.phase) => At(w, job.phase)' \/ IsWorkedOn'
  PROVE  JobGoesOn'
<1>1. IsWorkedOn => IsWorkedOn'
  BY DEF IsWorkedOn
<1>2. job'.phase \notin {None, Done} =>
        \E c \in tasks' : c.fn = "controller" /\ (c.phase = job'.phase => IsWorkedOn')
  BY <1>1 DEF JobGoesOn, ControllersStay
<1> QED
  BY <1>2, WaitsForBreaks DEF JobGoesOn, Break, Poll4000

LEMMA PhaseAdvances ==
  ASSUME IInv, NotAhead, JobGoesOn, BreaksStay, ControllersStay,
         job.phase \notin {None, Done}, job'.phase \in Nat, job'.phase > job.phase
  PROVE  JobGoesOn'
<1>1. PICK c \in tasks : c.fn = "controller"
  BY DEF JobGoesOn
<1>2. c \in tasks' /\ c.phase # job'.phase
  BY <1>1, PhaseIs DEF NotAhead, ControllersStay
<1> QED
  BY <1>1, <1>2, WaitsForBreaks DEF JobGoesOn, Break, Poll4000

(* A worker goes on with its task, and may put others on the queue.        *)
LEMMA WorkerWorks ==
  ASSUME IInv, JobGoesOn, NEW w \in Workers, worker[w] # Idle,
         worker'[w].task = worker[w].task,
         \A v \in Workers : v = w \/ worker'[v] = worker[v],
         job'.phase = job.phase, friends' = friends, tasks' = tasks
  PROVE  JobGoesOn'
<1>1. worker'[w] # Idle
  BY AtWork, PhasesAre DEF Idle, T, None, Done
<1>2. \A v \in Workers : At(v, job.phase) => At(v, job.phase)'
  BY <1>1 DEF At
<1>3. BreaksStay /\ ControllersStay
  BY DEF BreaksStay, ControllersStay
<1> QED
  BY <1>2, <1>3, PhaseStays

LEMMA MovesGoesOn ==
  ASSUME IInv, JobGoesOn, NEW w \in Workers, NEW p, NEW g, Moves(w, p, g),
         job'.phase = job.phase, UNCHANGED <<friends, tasks>>
  PROVE  JobGoesOn'
<1>1. /\ worker[w] # Idle /\ worker[w].groups # <<>>
      /\ worker' = [worker EXCEPT ![w] = MoveOn(worker[w])]
  BY DEF Moves, At, MoveOn
<1>2. worker[w] \in WorkerState
  BY <1>1, AtWork
<1>3. MoveOn(worker[w]).task = worker[w].task
  BY <1>1, <1>2, MovedOn
<1>4. worker'[w].task = worker[w].task /\ \A v \in Workers : v = w \/ worker'[v] = worker[v]
  BY <1>1, <1>3 DEF IInv, TypeOK
<1> QED
  BY <1>1, <1>4, WorkerWorks

LEMMA MovesModelsGoesOn ==
  ASSUME IInv, JobGoesOn, NEW w \in Workers, NEW p, MovesModels(w, p)
  PROVE  JobGoesOn'
  BY MovesGoesOn DEF MovesModels

LEMMA WritesGoesOn ==
  ASSUME IInv, JobGoesOn, NEW w \in Workers,
         \/ _1000_disable_old_service(w) \/ _2000_migrate_user_data(w)
         \/ _2250_cleanup_user_data(w) \/ _8000_enable(w) \/ _8000_grant_roles(w)
         \/ _8000_finish_models(w)
  PROVE  JobGoesOn'
<1>1. UNCHANGED <<friends, tasks>>
  BY DEF _1000_disable_old_service, _2000_migrate_user_data, _2250_cleanup_user_data,
         _8000_enable, _8000_grant_roles, _8000_finish_models
<1>2. job'.phase = job.phase
  BY DEF _1000_disable_old_service, _2000_migrate_user_data, _2250_cleanup_user_data,
         _8000_enable, _8000_grant_roles, _8000_finish_models, IInv, TypeOK,
         MigrateServiceJob
<1>3. \E p, g : Moves(w, p, g)
  BY DEF _1000_disable_old_service, _2000_migrate_user_data, _2250_cleanup_user_data,
         _8000_enable, _8000_grant_roles, _8000_finish_models
<1> QED
  BY <1>1, <1>2, <1>3, MovesGoesOn

LEMMA ReadGoesOn ==
  ASSUME IInv, NEW w \in Workers, worker[w] # Idle, NEW u, NEW U,
         worker' = [worker EXCEPT ![w] = Read(worker[w], u, U)]
  PROVE  /\ worker'[w].task = worker[w].task
         /\ \A v \in Workers : v = w \/ worker'[v] = worker[v]
<1>1. worker[w] \in WorkerState
  BY AtWork
<1>2. Read(worker[w], u, U).task = worker[w].task
  BY <1>1 DEF Read, WorkerState
<1> QED
  BY <1>2 DEF IInv, TypeOK

LEMMA ReadsGoesOn ==
  ASSUME IInv, JobGoesOn, NEW w \in Workers, _2000_get(w) \/ _3000_revoke_roles(w)
  PROVE  JobGoesOn'
<1>1. UNCHANGED <<friends, tasks>> /\ worker[w] # Idle
  BY DEF _2000_get, _3000_revoke_roles, account, At
<1>2. job'.phase = job.phase
  BY DEF _2000_get, _3000_revoke_roles, Revokes, IInv, TypeOK, MigrateServiceJob
<1>3. PICK u, U : worker' = [worker EXCEPT ![w] = Read(worker[w], u, U)]
  <2>1. CASE _2000_get(w)
    <3>1. PICK u : GetsUserData(w, u)
      BY <2>1 DEF _2000_get
    <3>2. PICK U : U = userData["old"] \cap {u}
      OBVIOUS
    <3>3. worker' = [worker EXCEPT ![w] = Read(worker[w], u, U)]
      BY <3>1, <3>2 DEF GetsUserData
    <3> QED
      BY <3>3
  <2>2. CASE _3000_revoke_roles(w)
    <3>1. PICK u : Revokes(w, u)
      BY <2>2 DEF _3000_revoke_roles
    <3>2. PICK U : U = {}
      OBVIOUS
    <3>3. worker' = [worker EXCEPT ![w] = Read(worker[w], u, U)]
      BY <3>1, <3>2 DEF Revokes
    <3> QED
      BY <3>3
  <2> QED
    BY <2>1, <2>2
<1>4. /\ worker'[w].task = worker[w].task
      /\ \A v \in Workers : v = w \/ worker'[v] = worker[v]
  BY <1>1, <1>3, ReadGoesOn
<1> QED
  BY <1>1, <1>2, <1>4, WorkerWorks

(* A task takes the phase of a worker that has ended, or of one that died. *)
LEMMA StartGoesOn ==
  ASSUME IInv, JobGoesOn, NEW w \in Workers, Start(w)
  PROVE  JobGoesOn'
<1>1. PICK t \in tasks :
        /\ t.fn = "worker" /\ worker[w] = Idle /\ tasks' = tasks \ {t}
        /\ worker' = [worker EXCEPT ![w] = IF job.phase = t.phase THEN Work(t) ELSE Idle]
        /\ UNCHANGED <<job, account, history>>
  BY DEF Start
<1>2. /\ \A v \in Workers : v = w \/ worker'[v] = worker[v]
      /\ worker'[w] = IF job.phase = t.phase THEN Work(t) ELSE Idle
  BY <1>1 DEF IInv, TypeOK
<1>3. job.phase = t.phase => At(w, job.phase)'
  <2>1. Work(t).task = t /\ t.phase \in ToSet(Phases) \ {Done}
    BY <1>1, WorkType DEF IInv, TaskInv
  <2>2. Idle.task.phase = None /\ None \notin ToSet(Phases)
    BY PhasesAre DEF Idle, T, None, Done
  <2> QED
    BY <1>1, <1>2, <2>1, <2>2 DEF At
<1>4. job.phase = t.phase => IsWorkedOn'
  BY <1>3 DEF IsWorkedOn
<1>5. \A v \in Workers : At(v, job.phase) => At(v, job.phase)'
  BY <1>1, <1>2 DEF At
<1>6. BreaksStay /\ ControllersStay
  BY <1>1 DEF BreaksStay, ControllersStay, Break, Poll4000, T, account
<1> QED
  BY <1>1, <1>4, <1>5, <1>6, PhaseStays

LEMMA WorkerDiesGoesOn ==
  ASSUME IInv, JobGoesOn, NEW w \in Workers, WorkerDies(w) \/ _2500_fails(w)
  PROVE  JobGoesOn'
<1>1. /\ worker[w] # Idle /\ worker' = [worker EXCEPT ![w] = Idle]
      /\ tasks' = tasks \cup {worker[w].task} /\ UNCHANGED <<job, account>>
  BY DEF WorkerDies, _2500_fails, At
<1>2. worker[w].task.fn = "worker"
  BY <1>1, AtWork DEF WorkerInv
<1>3. \A v \in Workers : v = w \/ worker'[v] = worker[v]
  BY <1>1 DEF IInv, TypeOK
<1>4. At(w, job.phase) => IsWorkedOn'
  BY <1>1, <1>2 DEF At, IsWorkedOn
<1>5. \A v \in Workers : At(v, job.phase) => At(v, job.phase)' \/ IsWorkedOn'
  BY <1>1, <1>3, <1>4 DEF At
<1>6. BreaksStay /\ ControllersStay
  BY <1>1, <1>2 DEF BreaksStay, ControllersStay, Poll4000, T, account
<1> QED
  BY <1>1, <1>5, <1>6, PhaseStays

LEMMA ChunkGoesOn ==
  ASSUME IInv, JobGoesOn, NEW w \in Workers, _2500_migrate_service_data(w)
  PROVE  JobGoesOn'
<1>1. PICK chunk \in SUBSET worker[w].left : MigratesChunk(w, chunk)
  BY ChunkOf DEF _2500_migrate_service_data
<1>2. /\ worker[w] # Idle /\ worker[w].task.phase = 2500
      /\ UNCHANGED <<job, friends>>
  BY DEF _2500_migrate_service_data, At
<1>3. PICK rest : rest = worker[w].left \ chunk
  OBVIOUS
<1>4. PICK n : n = T("worker", 2500, rest)
  OBVIOUS
<1>5. n.fn = "worker" /\ n.phase = 2500
  BY <1>4 DEF T
<1>6. tasks' = IF rest = {} THEN tasks ELSE tasks \cup {n}
  BY <1>1, <1>3, <1>4 DEF MigratesChunk
<1>7. CASE rest = {}
  <2> DEFINE y == [worker[w] EXCEPT !.left = {}]
  <2>1. y.task = worker[w].task
    BY <1>2, AtWork DEF WorkerState
  <2>2. worker' = [worker EXCEPT ![w] = y]
    BY <1>1, <1>3, <1>7 DEF MigratesChunk
  <2> HIDE DEF y
  <2>3. /\ worker'[w].task = worker[w].task
        /\ \A v \in Workers : v = w \/ worker'[v] = worker[v]
    BY <2>1, <2>2 DEF IInv, TypeOK
  <2> QED
    BY <1>2, <1>6, <1>7, <2>3, WorkerWorks
<1>8. CASE rest # {}
  <2>1. worker' = [worker EXCEPT ![w] = Idle]
    BY <1>1, <1>3, <1>8 DEF MigratesChunk
  <2>2. \A v \in Workers : v = w \/ worker'[v] = worker[v]
    BY <2>1 DEF IInv, TypeOK
  <2>3. At(w, job.phase) => IsWorkedOn'
    BY <1>2, <1>5, <1>6, <1>8 DEF At, IsWorkedOn
  <2>4. \A v \in Workers : At(v, job.phase) => At(v, job.phase)' \/ IsWorkedOn'
    BY <1>2, <2>2, <2>3 DEF At
  <2>5. n # Poll4000
    BY <1>5 DEF Poll4000, T
  <2>6. BreaksStay /\ ControllersStay
    BY <1>2, <1>6, <2>5 DEF BreaksStay, ControllersStay
  <2> QED
    BY <1>2, <1>6, <2>4, <2>6, PhaseStays
<1> QED
  BY <1>7, <1>8

(* The task that looks is put on the queue with those for the friends.     *)
LEMMA SchedulesGoesOn ==
  ASSUME IInv, JobGoesOn, NEW w \in Workers,
         _4000_disconnect_friends(w) \/ _9000_reconnect_friends(w)
  PROVE  JobGoesOn'
<1>1. PICK p \in {4000, 9000} :
        /\ At(w, p) /\ worker' = [worker EXCEPT ![w] = Idle]
        /\ tasks \subseteq tasks' /\ T("poll", p, {}) \in tasks'
        /\ p = 4000 => \A u \in friends["old"] : Break(u) \in tasks'
        /\ p = 9000 /\ Poll4000 \in tasks' => Poll4000 \in tasks
        /\ UNCHANGED <<job, account, history>>
  <2>1. CASE _4000_disconnect_friends(w)
    <3>1. /\ At(w, 4000) /\ worker' = [worker EXCEPT ![w] = Idle]
          /\ tasks' = tasks \cup TasksFor("break", 4000, friends["old"])
          /\ UNCHANGED <<job, account, history>>
      BY <2>1 DEF _4000_disconnect_friends, Schedules, TasksFor
    <3>2. \A u \in friends["old"] : Break(u) \in {Break(v) : v \in friends["old"]}
      OBVIOUS
    <3>3. /\ T("poll", 4000, {}) \in TasksFor("break", 4000, friends["old"])
          /\ \A u \in friends["old"] : Break(u) \in TasksFor("break", 4000, friends["old"])
      BY <3>2 DEF TasksFor, Break
    <3> QED
      BY <3>1, <3>3
  <2>2. CASE _9000_reconnect_friends(w)
    <3>1. /\ At(w, 9000) /\ worker' = [worker EXCEPT ![w] = Idle]
          /\ tasks' = tasks \cup TasksFor("make", 9000, job.fsic_keys)
          /\ UNCHANGED <<job, account, history>>
      BY <2>2 DEF _9000_reconnect_friends, Schedules, TasksFor
    <3>2. T("poll", 9000, {}) \in TasksFor("make", 9000, job.fsic_keys)
      BY DEF TasksFor
    <3>3. Poll4000 \notin TasksFor("make", 9000, job.fsic_keys)
      <4>1. \A b \in TasksFor("make", 9000, job.fsic_keys) : b.phase = 9000
        BY DEF TasksFor, T
      <4>2. Poll4000.phase = 4000
        BY DEF Poll4000, T
      <4> QED
        BY <4>1, <4>2
    <3> QED
      BY <3>1, <3>2, <3>3
  <2> QED
    BY <2>1, <2>2
<1>2. \A v \in Workers : v = w \/ worker'[v] = worker[v]
  BY <1>1 DEF IInv, TypeOK
<1>3. At(w, job.phase) => IsWorkedOn'
  <2>1. T("poll", p, {}).fn = "poll" /\ T("poll", p, {}).phase = p
    BY DEF T
  <2> QED
    BY <1>1, <2>1 DEF At, IsWorkedOn
<1>4. \A v \in Workers : At(v, job.phase) => At(v, job.phase)' \/ IsWorkedOn'
  BY <1>1, <1>2, <1>3 DEF At
<1>5. BreaksStay /\ ControllersStay
  BY <1>1 DEF BreaksStay, ControllersStay, account
<1> QED
  BY <1>1, <1>4, <1>5, PhaseStays

(* A phase that ends leaves the controller behind, which will see that.    *)
LEMMA NextPhaseGoesOn ==
  ASSUME IInv, NotAhead, JobGoesOn, NEW w \in Workers, _set_job_in_next_phase(w)
  PROVE  JobGoesOn'
<1>1. PICK p : p = worker[w].task.phase
  OBVIOUS
<1>2. /\ worker[w] # Idle /\ worker' = [worker EXCEPT ![w] = Idle]
      /\ SetPhase(p, PhaseAfter[p]) /\ UNCHANGED <<account, tasks, history>>
  BY <1>1 DEF _set_job_in_next_phase
<1>3. /\ p \in ToSet(Phases) \ {Done} /\ p # None
      /\ PhaseAfter[p] \in Nat /\ PhaseAfter[p] > p
  BY <1>1, <1>2, AtWork, NextPhase, PhasesGrow, PhasesAre DEF None, Done
<1>4. BreaksStay /\ ControllersStay
  BY <1>2 DEF BreaksStay, ControllersStay, account
<1>5. CASE job.phase = p
  <2>1. job'.phase = PhaseAfter[p]
    BY <1>2, <1>5 DEF SetPhase, IInv, TypeOK, MigrateServiceJob
  <2> QED
    BY <1>3, <1>4, <1>5, <2>1, PhaseAdvances
<1>6. CASE job.phase # p
  <2>1. job' = job
    BY <1>2, <1>6 DEF SetPhase
  <2>2. \A v \in Workers : At(v, job.phase) => At(v, job.phase)'
    <3>1. \A v \in Workers : v = w \/ worker'[v] = worker[v]
      BY <1>2 DEF IInv, TypeOK
    <3> QED
      BY <1>1, <1>6, <2>1, <3>1 DEF At
  <2> QED
    BY <1>2, <1>4, <2>1, <2>2, PhaseStays
<1> QED
  BY <1>5, <1>6

LEMMA PollsGoesOn ==
  ASSUME IInv, NotAhead, JobGoesOn, NEW p \in {4000, 9000}, NEW finished, Polls(p, finished)
  PROVE  JobGoesOn'
<1>1. PICK t \in tasks :
        /\ t.fn = "poll" /\ t.phase = p
        /\ \/ tasks' = tasks \ {t} /\ SetPhase(p, PhaseAfter[p])
           \/ UNCHANGED <<tasks, job>>
        /\ UNCHANGED <<account, worker, history>>
  BY DEF Polls
<1>2. /\ p \in ToSet(Phases) \ {Done} /\ p # None
      /\ PhaseAfter[p] \in Nat /\ PhaseAfter[p] > p
  <2>1. p \in ToSet(Phases) \ {Done} /\ p # None
    BY PhasesAre DEF None, Done
  <2> QED
    BY <2>1, NextPhase, PhasesGrow
<1>3. BreaksStay /\ ControllersStay
  BY <1>1 DEF BreaksStay, ControllersStay, Break, T, account
<1>4. CASE job'.phase # job.phase
  <2>1. job.phase = p /\ job'.phase = PhaseAfter[p]
    BY <1>1, <1>4 DEF SetPhase, IInv, TypeOK, MigrateServiceJob
  <2> QED
    BY <1>2, <1>3, <2>1, PhaseAdvances
<1>5. CASE job'.phase = job.phase
  <2>1. tasks' = tasks \/ (job.phase # p /\ tasks' = tasks \ {t})
    BY <1>1, <1>2, <1>5 DEF SetPhase, IInv, TypeOK, MigrateServiceJob
  <2>2. \A v \in Workers : At(v, job.phase) => At(v, job.phase)'
    BY <1>1, <1>5 DEF At
  <2> QED
    BY <1>1, <1>3, <1>5, <2>1, <2>2, PhaseStays
<1> QED
  BY <1>4, <1>5

LEMMA ControllerGoesOn ==
  ASSUME IInv, JobGoesOn, controller
  PROVE  JobGoesOn'
<1>1. PICK t \in tasks :
        /\ t.fn = "controller"
        /\ \/ job.phase = Done /\ tasks' = tasks \ {t}
           \/ /\ job.phase # t.phase
              /\ tasks' = (tasks \ {t}) \cup {T("worker", job.phase, {}),
                                              T("controller", job.phase, {})}
           \/ job.phase # t.phase /\ tasks' = tasks \cup {T("worker", job.phase, {})}
        /\ UNCHANGED <<job, account, worker>>
  BY DEF controller
<1>2. BreaksStay
  BY <1>1 DEF BreaksStay, Break, Poll4000, T, account
<1>3. CASE job.phase = Done
  BY <1>1, <1>2, <1>3, WaitsForBreaks DEF JobGoesOn, Break, Poll4000
<1>4. CASE /\ job.phase # t.phase
           /\ tasks' = (tasks \ {t}) \cup {T("worker", job.phase, {}),
                                           T("controller", job.phase, {})}
  <2>1. IsWorkedOn'
    <3>1. PICK n : n = T("worker", job.phase, {})
      OBVIOUS
    <3>2. n \in tasks' /\ n.fn = "worker" /\ n.phase = job'.phase
      BY <1>1, <1>4, <3>1 DEF T
    <3> QED
      BY <3>2 DEF IsWorkedOn
  <2>2. T("controller", job.phase, {}) \in tasks' /\ T("controller", job.phase, {}).fn = "controller"
    BY <1>4 DEF T
  <2> QED
    BY <1>2, <2>1, <2>2, WaitsForBreaks DEF JobGoesOn, Break, Poll4000
<1>5. CASE tasks' = tasks \cup {T("worker", job.phase, {})}
  <2>1. ControllersStay /\ \A v \in Workers : At(v, job.phase) => At(v, job.phase)'
    BY <1>1, <1>5 DEF ControllersStay, At
  <2> QED
    BY <1>1, <1>2, <1>5, <2>1, PhaseStays
<1> QED
  BY <1>1, <1>3, <1>4, <1>5

LEMMA MigrateGoesOn ==
  ASSUME IInv, migrate
  PROVE  JobGoesOn'
<1>1. /\ tasks = {} /\ tasks' = tasks \cup {T("controller", None, {})}
      /\ job'.phase = 1000
  BY DEF migrate, IInv, TypeOK, MigrateServiceJob
<1>2. /\ T("controller", None, {}) \in tasks'
      /\ T("controller", None, {}).fn = "controller"
      /\ T("controller", None, {}).phase # job'.phase
      /\ T("poll", 4000, {}) \notin tasks'
  BY <1>1 DEF T, None
<1> QED
  BY <1>2 DEF JobGoesOn

LEMMA FriendsGoesOn ==
  ASSUME IInv, JobGoesOn, _break_friends \/ _make_friends
  PROVE  JobGoesOn'
<1>1. PICK t \in tasks :
        /\ t.fn \in {"break", "make"} /\ tasks' = tasks \ {t}
        /\ t.fn = "break" => friends' = [friends EXCEPT !["old"] = @ \ t.keys]
        /\ t.fn = "make" => friends'["old"] = friends["old"]
        /\ job'.phase = job.phase /\ worker' = worker
  <2>1. CASE _break_friends
    BY <2>1 DEF _break_friends
  <2>2. CASE _make_friends
    BY <2>2 DEF _make_friends, IInv, TypeOK, Accounts, MigrateServiceJob
  <2> QED
    BY <2>1, <2>2
<1>2. friends'["old"] \subseteq friends["old"] /\
      (t.fn = "break" => friends'["old"] \subseteq friends["old"] \ t.keys)
  BY <1>1 DEF IInv, TypeOK, Accounts
<1>3. ASSUME NEW u \in friends'["old"], Break(u) = t PROVE FALSE
  <2>1. t.fn = "break" /\ u \in t.keys
    BY <1>3 DEF Break, T
  <2> QED
    BY <1>2, <2>1
<1>4. BreaksStay /\ ControllersStay
  BY <1>1, <1>2, <1>3 DEF BreaksStay, ControllersStay
<1>5. \A v \in Workers : At(v, job.phase) => At(v, job.phase)'
  BY <1>1 DEF At
<1> QED
  BY <1>1, <1>4, <1>5, PhaseStays

LEMMA UsersGoOn ==
  ASSUME IInv, JobGoesOn,
         UNCHANGED vars \/ \E a \in Accounts, u \in Users : Leaves(a, u) \/ Connects(a, u)
  PROVE  JobGoesOn'
<1>1. /\ UNCHANGED <<job, tasks, worker>>
      /\ enabled["old"] \/ friends'["old"] = friends["old"]
  BY DEF vars, Leaves, Connects, IInv, TypeOK, Accounts
<1>2. Poll4000 \in tasks => ~enabled["old"]
  <2>1. TaskInv(Poll4000) => CompleteBefore(4000)
    BY DEF TaskInv, Poll4000, T
  <2>2. CompleteBefore(4000) => Complete(1000)
    BY PhasesAre DEF CompleteBefore
  <2> QED
    BY <2>1, <2>2 DEF IInv, Complete
<1>3. BreaksStay /\ ControllersStay /\ \A v \in Workers : At(v, job.phase) => At(v, job.phase)'
  BY <1>1, <1>2 DEF BreaksStay, ControllersStay, At
<1> QED
  BY <1>1, <1>3, PhaseStays

LEMMA StepGoesOn ==
  ASSUME IInv, NotAhead, JobGoesOn, NEW w \in Workers, Step(w) \/ WorkerDies(w)
  PROVE  JobGoesOn'
<1>1. CASE \/ _4500_migrate_qrs(w) \/ _5000_migrate_non_ancestor_models(w)
           \/ _6000_migrate_ancestor_models(w) \/ _7000_migrate_solution(w)
  BY <1>1, MovesModelsGoesOn
     DEF _4500_migrate_qrs, _5000_migrate_non_ancestor_models,
         _6000_migrate_ancestor_models, _7000_migrate_solution
<1>2. CASE \/ _1000_disable_old_service(w) \/ _2000_migrate_user_data(w)
           \/ _2250_cleanup_user_data(w) \/ _8000_enable(w) \/ _8000_grant_roles(w)
           \/ _8000_finish_models(w)
  BY <1>2, WritesGoesOn
<1>3. CASE \/ _2000_get(w) \/ _3000_revoke_roles(w)
           \/ _4000_disconnect_friends(w) \/ _9000_reconnect_friends(w)
  BY <1>3, ReadsGoesOn, SchedulesGoesOn
<1>4. CASE \/ Start(w) \/ _2500_migrate_service_data(w) \/ _2500_fails(w)
           \/ _set_job_in_next_phase(w) \/ WorkerDies(w)
  BY <1>4, StartGoesOn, ChunkGoesOn, NextPhaseGoesOn, WorkerDiesGoesOn
<1> QED
  BY <1>1, <1>2, <1>3, <1>4 DEF Step

LEMMA NextGoesOn == IInv /\ KInv /\ JobGoesOn /\ [Next]_vars => JobGoesOn'
<1> SUFFICES ASSUME IInv, NotAhead, JobGoesOn, [Next]_vars PROVE JobGoesOn'
  BY DEF KInv, Queue
<1>1. CASE UNCHANGED vars \/ \E a \in Accounts, u \in Users : Leaves(a, u) \/ Connects(a, u)
  BY <1>1, UsersGoOn
<1>2. CASE migrate \/ controller \/ _break_friends \/ _make_friends
  BY <1>2, MigrateGoesOn, ControllerGoesOn, FriendsGoesOn
<1>3. CASE _4000_poll
  BY <1>3, PollsGoesOn DEF _4000_poll
<1>4. CASE _9000_poll
  BY <1>4, PollsGoesOn DEF _9000_poll
<1>5. CASE \E w \in Workers : Step(w) \/ WorkerDies(w)
  BY <1>5, StepGoesOn
<1> QED
  BY <1>1, <1>2, <1>3, <1>4, <1>5 DEF Next

-----------------------------------------------------------------------------
(* What the moves keep, in the words of the properties.                    *)
LEMMA UserDataStays == IInv /\ KInv => UserDataIsKept
<1> SUFFICES ASSUME IInv, KInv, 2000 \notin history.repeated PROVE UserDataIsKept
  BY DEF UserDataIsKept
<1>1. job.phase <= 2000 \/ job.phase > 2000
  BY PhaseIs
<1> QED
  BY <1>1 DEF KInv, DataMoves, UserDataIsKept

LEMMA RolesAreNotLost == IInv /\ KInv => RolesAreGranted
  BY DEF KInv, RolesMove, RolesAreGranted, Done

LEMMA ServiceDataStays == KInv => ServiceDataIsKept
  BY DEF KInv, ServiceMoves, ServiceDataIsKept

(* The UserData, the roles and the service data of the old service arrive  *)
(* at the new one, however late workers are and wherever they die; what    *)
(* the job can lose, it loses in the phases that the property names        *)
(* (_2000_migrate_user_data, _2500_migrate_service_data, _3000_revoke_roles *)
(* and _8000_finish_models).  And the job is never left: the controller,   *)
(* which is behind it or has put on the queue what works at its phase,     *)
(* goes on (controller, _set_job_in_next_phase and the tasks that look     *)
(* whether the friends are done).                                          *)
THEOREM NothingGetsLost == Spec => []NothingIsLost
<1>1. Init => IInv /\ KInv /\ JobGoesOn
  <2>1. Init => JobGoesOn
    BY DEF Init, JobGoesOn
  <2> QED
    BY <2>1, InitIInv, InitKInv
<1>2. IInv /\ KInv /\ JobGoesOn /\ [Next]_vars => (IInv /\ KInv /\ JobGoesOn)'
  BY NextIInv, NextKInv, NextGoesOn
<1>3. IInv /\ KInv /\ JobGoesOn => NothingIsLost
  BY UserDataStays, RolesAreNotLost, ServiceDataStays DEF NothingIsLost
<1> QED
  BY <1>1, <1>2, <1>3, PTL DEF Spec
=============================================================================
