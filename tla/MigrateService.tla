---------------------------- MODULE MigrateService ----------------------------
(***************************************************************************)
(* The job that gives a service another e-mail address, by moving all it   *)
(* has to a new account: shop/jobs/migrate_service.py.  A controller puts  *)
(* a worker on the queue for each phase; the worker sets the next phase    *)
(* when it is done.  A worker that dies is run again from its beginning.   *)
(***************************************************************************)
EXTENDS Naturals, Sequences, FiniteSets, SequencesExt

CONSTANTS
  Users,       \* the people, and services, that may know the service
  NoProfile,   \* those of them that have no UserProfile
  Identities,  \* the service identities, numbered as a query returns them
  Workers,     \* the instances that run tasks of workers
  ChunkSize,   \* how many identities one task moves the service data of: 200
  MaxFailures, \* bound: how often a worker dies or the controller is run again,
               \* twice and once in a phase
  MaxPhases    \* bound: the phases in which they do

ASSUME MigrateServiceAssumption ==
  /\ NoProfile \subseteq Users /\ IsFiniteSet(Users)
  /\ Identities \subseteq Nat /\ IsFiniteSet(Identities) /\ ChunkSize \in Nat \ {0}
  /\ MaxFailures \in Nat /\ MaxPhases \in Nat

VARIABLES
  job,          \* the MigrateServiceJob
  enabled,      \* [account -> whether it is enabled]
  friends,      \* [account -> the users it is connected to]
  roles,        \* [account -> the users with a role in it]
  userData,     \* [account -> the users it has UserData of]
  serviceData,  \* [identity -> where its service data is]
  moved,        \* the groups of models that are at the new account
  tasks,        \* the deferred tasks
  worker,       \* what the workers have still to do, and have read
  history       \* not in the code: the users that had UserData; those whose role was
                \* revoked by a transaction that ran again; the phases in which a worker
                \* died, and did so twice, and those for which two were put on the queue

vars == <<job, enabled, friends, roles, userData, serviceData, moved, tasks, worker,
          history>>
account == <<enabled, friends, roles, userData, serviceData, moved>>

-----------------------------------------------------------------------------
(* The phases; DONE, which is -1, is sorted last.  0 is before the job.    *)
None == 0
Done == 10000
Phases == <<1000, 2000, 2250, 2500, 3000, 4000, 4500, 5000, 6000, 7000, 8000, 9000, Done>>

PhaseAfter == [p \in ToSet(Phases) \ {Done} |->
                 Phases[1 + CHOOSE i \in DOMAIN Phases : Phases[i] = p]]

(* The groups of models that a worker moves one after the other, each in   *)
(* transactions of its own.                                                *)
Groups == [p \in ToSet(Phases) |->
  CASE p = 1000 -> <<"profile">>
    [] p = 2000 -> <<"store_user_data">>
    [] p = 2250 -> <<"delete_user_data">>
    [] p = 4000 -> <<"break_friends">>
    [] p = 4500 -> <<"recommend_qrs", "other_qrs", "profile_pointers">>
    [] p = 5000 -> <<"non_ancestor_models">>
    [] p = 6000 -> <<"translations", "ancestor_models">>
    [] p = 7000 -> <<"branding", "reservations", "solution_models", "identity">>
    [] p = 8000 -> <<"enable", "customer", "grant_roles", "owners">>
    [] p = 9000 -> <<"make_friends">>
    [] OTHER    -> <<>>]

(* What must be at the new account before anybody may use it.              *)
Models == UNION {ToSet(Groups[p]) : p \in {4500, 5000, 6000, 7000}}

Accounts == {"old", "new"}
Task == [fn: {"controller", "worker", "poll", "break", "make"},
         phase: {None} \cup ToSet(Phases), keys: SUBSET (Users \cup Identities)]

T(fn, phase, keys) == [fn |-> fn, phase |-> phase, keys |-> keys]

(* A worker has groups of models, users or identities left to do, and has  *)
(* seen the users that its query or its gets returned.                     *)
Idle == [task |-> T("worker", None, {}), groups |-> <<>>, left |-> {}, seen |-> {}]

MigrateServiceJob ==
  [phase: {None} \cup ToSet(Phases), enabled: BOOLEAN,
   fsic_keys: SUBSET Users, user_datas: SUBSET Users, grants: SUBSET Users]

LeftOf(p) == {SubSeq(Groups[p], k, Len(Groups[p])) : k \in 1 .. 5}
GroupsLeft == UNION {LeftOf(p) : p \in ToSet(Phases)}

TypeOK ==
  /\ job \in MigrateServiceJob
  /\ enabled \in [Accounts -> BOOLEAN]
  /\ friends \in [Accounts -> SUBSET Users]
  /\ roles \in [Accounts -> SUBSET Users]
  /\ userData \in [Accounts -> SUBSET Users]
  /\ serviceData \in [Identities -> Accounts \cup {"deleted"}]
  /\ moved \subseteq UNION {ToSet(Groups[p]) : p \in ToSet(Phases)}
  /\ tasks \subseteq Task
  /\ worker \in [Workers -> [task: Task, groups: GroupsLeft,
                             left: SUBSET (Users \cup Identities), seen: SUBSET Users]]
  /\ history \in [data: SUBSET Users, forgotten: SUBSET Users,
                  died: SUBSET ToSet(Phases), diedTwice: SUBSET ToSet(Phases),
                  repeated: SUBSET ToSet(Phases)]

(* migrate has read whether the service is enabled, and its friends.       *)
Init ==
  /\ enabled \in {[a \in Accounts |-> FALSE], [a \in Accounts |-> a = "old"]}
  /\ \E F \in SUBSET Users :
       /\ friends = [a \in Accounts |-> IF a = "old" THEN F ELSE {}]
       /\ userData = [a \in Accounts |-> IF a = "old" THEN F \ NoProfile ELSE {}]
       /\ history = [data |-> F \ NoProfile, forgotten |-> {}, died |-> {}, diedTwice |-> {},
                      repeated |-> {}]
  /\ job = [phase |-> None, enabled |-> enabled["old"], fsic_keys |-> friends["old"],
            user_datas |-> {}, grants |-> {}]
  /\ roles = [a \in Accounts |-> IF a = "old" THEN Users \ NoProfile ELSE {}]
  /\ serviceData = [i \in Identities |-> "old"]
  /\ moved = {} /\ tasks = {}
  /\ worker = [w \in Workers |-> Idle]

-----------------------------------------------------------------------------
(* The transaction of migrate: the job has what was read before.           *)
migrate ==
  /\ job.phase = None
  /\ job' = [job EXCEPT !.phase = 1000]
  /\ tasks' = tasks \cup {T("controller", None, {})}
  /\ UNCHANGED <<account, worker, history>>

MayFail(phase) ==
  /\ Cardinality(history.died) + Cardinality(history.diedTwice)
       + Cardinality(history.repeated) < MaxFailures
  /\ Cardinality(history.died \cup history.repeated \cup {phase}) <= MaxPhases

(* Mutant: the controller is not put on the queue again.                    *)
controller_once ==
  \E t \in tasks :
    /\ t.fn = "controller" /\ job.phase \notin {Done, t.phase}
    /\ tasks' = (tasks \ {t}) \cup {T("worker", job.phase, {})}
    /\ UNCHANGED <<job, account, worker, history>>

(* The controller looks whether the phase has changed since it last did.   *)
(* Should it die after it put the worker on the queue, it does so again.   *)
controller ==
  \E t \in tasks :
    /\ t.fn = "controller"
    /\ \/ /\ job.phase = Done
          /\ tasks' = tasks \ {t}
          /\ UNCHANGED history
       \/ /\ job.phase \notin {Done, t.phase}
          /\ tasks' = (tasks \ {t}) \cup {T("worker", job.phase, {}),
                                          T("controller", job.phase, {})}
          /\ UNCHANGED history
       \/ /\ job.phase \notin {Done, t.phase}
          /\ job.phase \notin history.repeated /\ MayFail(job.phase)
          /\ tasks' = tasks \cup {T("worker", job.phase, {})}
          /\ history' = [history EXCEPT !.repeated = @ \cup {job.phase}]
    /\ UNCHANGED <<job, account, worker>>

-----------------------------------------------------------------------------
(* Mutant: the roles of those are revoked that are friends.                 *)
WorkOnFriends(t) ==
  [task |-> t, groups |-> Groups[t.phase],
   left |-> CASE t.phase = 2500 -> IF t.keys = {} THEN Identities ELSE t.keys
              [] t.phase \in {2000, 3000} -> job.fsic_keys
              [] OTHER -> {},
   seen |-> IF t.phase = 3000 THEN job.fsic_keys ELSE {}]

(* _get_job: a worker that is late finds another phase and fails.           *)
Work(t) ==
  [task |-> t, groups |-> Groups[t.phase],
   left |-> CASE t.phase = 2000 -> job.fsic_keys
              [] t.phase = 2500 -> IF t.keys = {} THEN Identities ELSE t.keys
              [] t.phase = 3000 -> roles["old"]
              [] OTHER -> {},
   seen |-> IF t.phase = 3000 THEN roles["old"] ELSE {}]

(* The first identities of S, of which a task moves the service data; it    *)
(* fails, each time it is run, when that of one of them is gone.            *)
Chunk(S) == {i \in S : Cardinality({j \in S : j < i}) < ChunkSize}

MayMove(S) == \A i \in Chunk(S) : serviceData[i] # "deleted"

Start(w) ==
  \E t \in tasks :
    /\ t.fn = "worker" /\ worker[w] = Idle
    /\ job.phase = 2500 /\ t.phase = 2500 => MayMove(Work(t).left)
    /\ tasks' = tasks \ {t}
    /\ worker' = [worker EXCEPT ![w] = IF job.phase = t.phase THEN Work(t) ELSE Idle]
    /\ UNCHANGED <<job, account, history>>

At(w, phase) == worker[w] # Idle /\ worker[w].task.phase = phase

(* Mutant: the phases are all five hundred apart.                          *)
SetPhaseBy500(phase, next) ==
  job' = IF job.phase = phase THEN [job EXCEPT !.phase = phase + 500] ELSE job

(* _set_job_in_next_phase, the last a worker does.                         *)
SetPhase(phase, next) ==
  job' = IF job.phase = phase THEN [job EXCEPT !.phase = next] ELSE job

_set_job_in_next_phase(w) ==
  /\ worker[w] # Idle /\ worker[w].groups = <<>> /\ worker[w].left = {}
  /\ SetPhase(worker[w].task.phase, PhaseAfter[worker[w].task.phase])
  /\ worker' = [worker EXCEPT ![w] = Idle]
  /\ UNCHANGED <<account, tasks, history>>

(* The task stays on the queue until it has been run to its end.           *)
WorkerDies(w) ==
  /\ worker[w] # Idle
  /\ LET p == worker[w].task.phase IN
       /\ p \notin history.diedTwice /\ MayFail(p)
       /\ history' = [history EXCEPT !.died = @ \cup {p},
                                     !.diedTwice = @ \cup ({p} \cap history.died)]
  /\ tasks' = tasks \cup {worker[w].task}
  /\ worker' = [worker EXCEPT ![w] = Idle]
  /\ UNCHANGED <<job, account>>

(* The next group of models of w is g.                                      *)
Moves(w, phase, g) ==
  /\ At(w, phase) /\ worker[w].groups # <<>> /\ Head(worker[w].groups) = g
  /\ worker' = [worker EXCEPT ![w].groups = Tail(@)]
  /\ moved' = moved \cup {g}
  /\ UNCHANGED <<history>>

-----------------------------------------------------------------------------
_1000_disable_old_service(w) ==
  /\ Moves(w, 1000, "profile")
  /\ enabled' = [enabled EXCEPT !["old"] = FALSE]
  /\ UNCHANGED <<job, friends, roles, userData, serviceData, tasks>>

(* The UserData of 200 friends are got at once, of more in steps.           *)
Read(v, u, U) == [v EXCEPT !.left = @ \ {u}, !.seen = @ \cup U]

GetsUserData(w, u) ==
  worker' = [worker EXCEPT ![w] = Read(@, u, userData["old"] \cap {u})]

_2000_get(w) ==
  /\ At(w, 2000)
  /\ \E u \in worker[w].left : GetsUserData(w, u)
  /\ UNCHANGED <<job, account, tasks, history>>

(* trans_update_user_datas does not look at the phase.                      *)
_2000_migrate_user_data(w) ==
  /\ worker[w].left = {}
  /\ Moves(w, 2000, "store_user_data")
  /\ job' = IF worker[w].seen = {} THEN job ELSE [job EXCEPT !.user_datas = worker[w].seen]
  /\ UNCHANGED <<enabled, friends, roles, userData, serviceData, tasks>>

_2250_cleanup_user_data(w) ==
  /\ Moves(w, 2250, "delete_user_data")
  /\ userData' = [userData EXCEPT !["old"] = @ \ job.fsic_keys]
  /\ UNCHANGED <<job, enabled, friends, roles, serviceData, tasks>>

(* A chunk of identities in a transaction that also defers the task for the *)
(* rest.  The models get keys at the new account and the old ones are       *)
(* deleted: of what is at the new account already, that is the same key.    *)
MigratesChunk(w, chunk) ==
  LET rest == worker[w].left \ chunk IN
    /\ serviceData' = [i \in Identities |->
         IF i \notin chunk THEN serviceData[i]
         ELSE IF serviceData[i] = "old" THEN "new" ELSE "deleted"]
    /\ tasks' = tasks \cup {T("worker", 2500, keys) : keys \in {rest} \ {{}}}
    /\ worker' = [worker EXCEPT ![w] = IF rest = {} THEN [@ EXCEPT !.left = {}] ELSE Idle]

_2500_migrate_service_data(w) ==
  /\ At(w, 2500) /\ worker[w].left # {}
  /\ MayMove(worker[w].left)
  /\ MigratesChunk(w, Chunk(worker[w].left))
  /\ UNCHANGED <<job, enabled, friends, roles, userData, moved, history>>

(* The models were deleted while it ran: it is run again, and fails.        *)
_2500_fails(w) ==
  /\ At(w, 2500) /\ worker[w].left # {}
  /\ ~MayMove(worker[w].left)
  /\ tasks' = tasks \cup {worker[w].task}
  /\ worker' = [worker EXCEPT ![w] = Idle]
  /\ UNCHANGED <<job, account, history>>

(* The profile was read by the query, and is put back as it was, without    *)
(* its roles.  When the transaction runs again, they are gone from the      *)
(* profile in memory, and are not written to the new copy of the job.       *)
Revokes(w, u) ==
  /\ worker' = [worker EXCEPT ![w] = Read(@, u, {})]
  /\ roles' = [a \in Accounts |-> roles[a] \ {u}]
  /\ \/ /\ job' = [job EXCEPT !.grants = @ \cup {u}]
        /\ UNCHANGED history
     \/ /\ history' = [history EXCEPT !.forgotten = @ \cup {u}]
        /\ UNCHANGED job

_3000_revoke_roles(w) ==
  /\ At(w, 3000)
  /\ \E u \in worker[w].left : Revokes(w, u)
  /\ UNCHANGED <<enabled, friends, userData, serviceData, moved, tasks>>

-----------------------------------------------------------------------------
(* Friends are disconnected, and connected again, by tasks of their own;    *)
(* a task looks every few seconds whether they are done.                     *)
Schedules(w, phase, g, fn, U) ==
  /\ At(w, phase) /\ worker[w].groups = <<g>>
  /\ worker' = [worker EXCEPT ![w] = Idle]
  /\ tasks' = tasks \cup {T(fn, phase, {u}) : u \in U} \cup {T("poll", phase, {})}
  /\ UNCHANGED <<job, account, history>>

Polls(phase, finished) ==
  \E t \in tasks :
    /\ t.fn = "poll" /\ t.phase = phase
    /\ \/ /\ job.phase # phase \/ finished
          /\ tasks' = tasks \ {t}
          /\ SetPhase(phase, PhaseAfter[phase])
       \/ /\ job.phase = phase /\ ~finished
          /\ UNCHANGED <<tasks, job>>
    /\ UNCHANGED <<account, worker, history>>

_4000_disconnect_friends(w) ==
  Schedules(w, 4000, "break_friends", "break", friends["old"])

_break_friends ==
  \E t \in tasks :
    /\ t.fn = "break"
    /\ friends' = [friends EXCEPT !["old"] = @ \ t.keys]
    /\ tasks' = tasks \ {t}
    /\ UNCHANGED <<job, enabled, roles, userData, serviceData, moved, worker, history>>

(* Mutant: the phase ends as soon as the friends are on the queue.          *)
_4000_does_not_wait == Polls(4000, TRUE)

_4000_poll == Polls(4000, friends["old"] = {})

_9000_reconnect_friends(w) ==
  Schedules(w, 9000, "make_friends", "make", job.fsic_keys)

_make_friends ==
  \E t \in tasks :
    /\ t.fn = "make"
    /\ LET u == t.keys IN
         \/ /\ u \subseteq NoProfile
            /\ job' = [job EXCEPT !.fsic_keys = @ \ u]
            /\ UNCHANGED <<friends, userData>>
         \/ /\ ~ u \subseteq NoProfile
            /\ friends' = [friends EXCEPT !["new"] = @ \cup u]
            /\ userData' = [userData EXCEPT !["new"] = @ \cup (u \cap job.user_datas)]
            /\ UNCHANGED job
    /\ tasks' = tasks \ {t}
    /\ UNCHANGED <<enabled, roles, serviceData, moved, worker, history>>

(* The friends of the new service are counted, whoever they are.            *)
FriendCountIsExpected == Cardinality(friends["new"]) = Cardinality(job.fsic_keys)

_9000_poll == Polls(9000, FriendCountIsExpected)

-----------------------------------------------------------------------------
(* The models that other phases move.                                       *)
MovesModels(w, phase) ==
  /\ \E g \in ToSet(Groups[phase]) : Moves(w, phase, g)
  /\ UNCHANGED <<job, enabled, friends, roles, userData, serviceData, tasks>>

_4500_migrate_qrs(w) == MovesModels(w, 4500)
_5000_migrate_non_ancestor_models(w) == MovesModels(w, 5000)
_6000_migrate_ancestor_models(w) == MovesModels(w, 6000)

(* It begins with the settings of the old service.  Once these are moved,   *)
(* a worker that is run again finds none, and fails.                        *)
_7000_migrate_solution(w) ==
  /\ MovesModels(w, 7000)
  /\ Len(worker[w].groups) = 3 => "solution_models" \notin moved

_8000_enable(w) ==
  /\ Moves(w, 8000, "enable")
  /\ enabled' = [enabled EXCEPT !["new"] = job.enabled]
  /\ UNCHANGED <<job, friends, roles, userData, serviceData, tasks>>

_8000_grant_roles(w) ==
  /\ Moves(w, 8000, "grant_roles")
  /\ roles' = [roles EXCEPT !["new"] = @ \cup job.grants]
  /\ UNCHANGED <<job, enabled, friends, userData, serviceData, tasks>>

(* The customer and the owners are coupled to the new account.              *)
_8000_finish_models(w) ==
  /\ \E g \in {"customer", "owners"} : Moves(w, 8000, g)
  /\ UNCHANGED <<job, enabled, friends, roles, userData, serviceData, tasks>>

-----------------------------------------------------------------------------
(* Users leave the services, and connect themselves to the one that is       *)
(* enabled.  Who leaves the old one once it is disabled does but what        *)
(* _break_friends will do.                                                   *)
Leaves(a, u) ==
  /\ u \in friends[a]
  /\ a = "old" => enabled["old"]
  /\ friends' = [friends EXCEPT ![a] = @ \ {u}]
  /\ UNCHANGED <<job, enabled, roles, userData, serviceData, moved, tasks, worker, history>>

Connects(a, u) ==
  /\ enabled[a] /\ u \notin NoProfile \cup job.fsic_keys \cup friends[a]
  /\ friends' = [friends EXCEPT ![a] = @ \cup {u}]
  /\ UNCHANGED <<job, enabled, roles, userData, serviceData, moved, tasks, worker, history>>

Step(w) ==
  \/ Start(w)
  \/ _1000_disable_old_service(w)
  \/ _2000_get(w)
  \/ _2000_migrate_user_data(w)
  \/ _2250_cleanup_user_data(w)
  \/ _2500_migrate_service_data(w) \/ _2500_fails(w)
  \/ _3000_revoke_roles(w)
  \/ _4000_disconnect_friends(w)
  \/ _4500_migrate_qrs(w)
  \/ _5000_migrate_non_ancestor_models(w)
  \/ _6000_migrate_ancestor_models(w)
  \/ _7000_migrate_solution(w)
  \/ _8000_enable(w)
  \/ _8000_grant_roles(w)
  \/ _8000_finish_models(w)
  \/ _9000_reconnect_friends(w)
  \/ _set_job_in_next_phase(w)

Next ==
  \/ migrate
  \/ controller
  \/ _break_friends
  \/ _make_friends
  \/ _4000_poll
  \/ _9000_poll
  \/ \E w \in Workers : Step(w) \/ WorkerDies(w)
  \/ \E a \in Accounts, u \in Users : Leaves(a, u) \/ Connects(a, u)

Spec == Init /\ [][Next]_vars

(* A task runs until it succeeds.                                           *)
Fairness ==
  /\ WF_vars(controller) /\ WF_vars(_break_friends) /\ WF_vars(_make_friends)
  /\ WF_vars(_4000_poll) /\ WF_vars(_9000_poll)
  /\ \A w \in Workers : WF_vars(Step(w))

FairSpec == Spec /\ Fairness

-----------------------------------------------------------------------------
(* The data of a friend is at the old service, in the job or at the new     *)
(* service, once a worker does not overwrite what another has read.          *)
UserDataIsKept ==
  \/ history.data \subseteq userData["old"] \cup job.user_datas \cup userData["new"]
  \/ 2000 \in history.repeated

(* Whoever had a role has it at the new service after phase 8000.            *)
RolesAreGranted ==
  job.phase \in {9000, Done} =>
    \/ Users \ NoProfile \subseteq roles["new"] \cup history.forgotten
    \/ 3000 \in history.repeated

ServiceDataIsKept ==
  \/ \A i \in Identities : serviceData[i] # "deleted"
  \/ 2500 \in history.died \cup history.repeated

(* A task or a worker is at the phase of the job, or the controller has yet   *)
(* to look at it; and while the job waits for the friends to be disconnected, *)
(* each that still is one has a task that does so.                            *)
IsWorkedOn ==
  \/ \E t \in tasks : t.fn \in {"worker", "poll"} /\ t.phase = job.phase
  \/ \E w \in Workers : At(w, job.phase)

JobGoesOn ==
  /\ job.phase \notin {None, Done} =>
       \E c \in tasks : c.fn = "controller" /\ (c.phase = job.phase => IsWorkedOn)
  /\ T("poll", 4000, {}) \in tasks =>
       \A u \in friends["old"] : T("break", 4000, {u}) \in tasks

(* What the service has is not lost, whoever dies, leaves or is late, but for *)
(* three weaknesses: two workers that read the user data, of which one is     *)
(* overtaken by the clean-up; two that revoke roles, or one of which the       *)
(* transaction runs again; and one that runs again on service data that is     *)
(* moved, and deletes it.  Nor is the job: something always goes on with it.   *)
NothingIsLost == UserDataIsKept /\ RolesAreGranted /\ ServiceDataIsKept /\ JobGoesOn

(* The new service is not enabled before all it needs is there and nobody is  *)
(* connected to the old one: workers that are late do not mix the phases.      *)
EnabledWhenMoved ==
  enabled["new"] =>
    /\ Models \subseteq moved
    /\ friends["old"] = {}
    /\ \A i \in Identities : serviceData[i] # "old"

(* A worker died after it moved the settings that it needs to run again; or    *)
(* one died after it moved service data, and the next after it deleted that,   *)
(* so that the third finds none.                                               *)
Stuck ==
  \/ /\ job.phase = 7000 /\ "solution_models" \in moved
     /\ 7000 \in history.died \cup history.repeated
  \/ /\ job.phase = 2500 /\ \E i \in Identities : serviceData[i] = "deleted"
     /\ 2500 \in history.diedTwice

(* The job is finished, or it is stuck, or it counts friends of which some     *)
(* have left, or have come by themselves.                                      *)
Finishes ==
  job.phase = 1000 ~>
    \/ job.phase = Done
    \/ []Stuck
    \/ [](job.phase = 9000) /\ []<>~FriendCountIsExpected
=============================================================================
