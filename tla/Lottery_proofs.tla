---------------------------- MODULE Lottery_proofs ----------------------------
(***************************************************************************)
(* Theorems about Lottery, and about CityWideLottery next to it as         *)
(* MCLoyalty has them, for every finite set of visitors, of days and of    *)
(* visits, and every bound of what goes wrong.                             *)
(***************************************************************************)
EXTENDS MCLoyalty, SumTheorems, FiniteSetTheorems, TLAPS

-----------------------------------------------------------------------------
(* The inductive invariant.  What a draw or a confirmation holds is a copy  *)
(* from before the prize was claimed, and who confirms is the winner in it. *)

HeldCopies ==
  \A h \in held :
    /\ h.copy.exists
    /\ h.op \in {"pick", "confirm"} => ~h.copy.claimed
    /\ h.op = "confirm" => h.user \in Users /\ h.user = h.copy.winner

LotteryExists == history.confirmed # {} => lottery.exists

IInv == TypeOK /\ HeldCopies /\ LotteryExists /\ CountedVisitsExist /\ ConfirmedIsWinner

-----------------------------------------------------------------------------
(* Types.                                                                  *)

LEMMA HappenedType ==
  ASSUME history \in Histories, NEW it \in {FALSE} \cup {MayHappen}
  PROVE  /\ Happened(it) \in Histories
         /\ Happened(it).confirmed = history.confirmed
         /\ Happened(it).overwritten = history.overwritten
<1>1. CASE it
  <2>1. history.events \in 0 .. MaxEvents /\ history.events < MaxEvents
    BY <1>1 DEF Histories, MayHappen
  <2>2. history.events + 1 \in 0 .. MaxEvents
    BY <2>1, LotteryAssumption
  <2>3. Happened(it) = [history EXCEPT !.events = history.events + 1]
    BY <1>1 DEF Happened
  <2> QED
    BY <2>2, <2>3 DEF Histories
<1>2. CASE ~it
  BY <1>2 DEF Happened, Histories
<1> QED
  BY <1>1, <1>2

LEMMA OverwrittenType ==
  ASSUME history \in Histories, NEW h \in Held
  PROVE  NowOverwritten(h) \in Histories
  BY DEF NowOverwritten, Histories

LEMMA HoldsType ==
  ASSUME TypeOK, NEW op \in {"pick", "confirm", "edit", "close"},
         NEW u \in Users \cup {NoUser}, Holds(op, u)
  PROVE  held' \subseteq Held
  BY DEF TypeOK, Holds, Held

LEMMA DefersType ==
  ASSUME TypeOK, NEW t \in Tasks, Defers(t)
  PROVE  tasks' \in [Tasks -> Nat]
  BY DEF TypeOK, Defers

LEMMA HeldTypes ==
  ASSUME TypeOK, NEW h \in held
  PROVE  /\ h \in Held /\ h.copy \in Lotteries /\ h.user \in Users \cup {NoUser}
         /\ held \ {h} \subseteq Held
  BY DEF TypeOK, Held

LEMMA InitTypeOK == Init => TypeOK
  BY LotteryAssumption
  DEF Init, TypeOK, VisitStates, NoCount, NoLottery, Lotteries, Histories, Tasks

LEMMA VisitsType ==
  ASSUME TypeOK, NEW u \in Users, NEW d \in Days,
         add_loyalty_for_user_lottery(u, d) \/ delete_visit(u, d)
  PROVE  TypeOK'
<1>1. visits' \in [Users \X Days -> VisitStates]
  <2>1. CASE add_loyalty_for_user_lottery(u, d)
    <3>1. PICK state \in OpenAs(u) : visits' = [visits EXCEPT ![<<u, d>>] = state]
      BY <2>1 DEF add_loyalty_for_user_lottery
    <3>2. state \in VisitStates
      BY DEF OpenAs, VisitStates
    <3> QED
      BY <3>1, <3>2 DEF TypeOK
  <2>2. CASE delete_visit(u, d)
    BY <2>2 DEF TypeOK, VisitStates, delete_visit
  <2> QED
    BY <2>1, <2>2
<1>2. statistics' \in [Users -> Nat]
  <2>1. statistics \in [Users -> Nat]
    BY DEF TypeOK
  <2>2. CASE add_loyalty_for_user_lottery(u, d)
    BY <2>1, <2>2 DEF add_loyalty_for_user_lottery
  <2>3. CASE delete_visit(u, d)
    BY <2>1, <2>3 DEF delete_visit
  <2> QED
    BY <2>2, <2>3
<1>3. history' \in Histories
  <2>1. CASE delete_visit(u, d)
    <3>1. TRUE \in {FALSE} \cup {MayHappen}
      BY <2>1 DEF delete_visit
    <3> QED
      BY <2>1, <3>1, HappenedType DEF TypeOK, delete_visit
  <2> QED
    BY <2>1 DEF TypeOK, add_loyalty_for_user_lottery
<1> QED
  BY <1>1, <1>2, <1>3 DEF TypeOK, add_loyalty_for_user_lottery, delete_visit

LEMMA SettingsType ==
  ASSUME TypeOK, add_loyalty_lottery_info \/ put_loyalty_settings \/ edit_get \/ close_get
  PROVE  TypeOK'
<1>1. CASE add_loyalty_lottery_info
  BY <1>1 DEF TypeOK, add_loyalty_lottery_info, NoLottery, Lotteries
<1>2. CASE put_loyalty_settings
  BY <1>2, HappenedType DEF TypeOK, put_loyalty_settings
<1>3. CASE edit_get \/ close_get
  BY <1>3, HappenedType, HoldsType DEF TypeOK, edit_get, close_get
<1> QED
  BY <1>1, <1>2, <1>3

LEMMA TasksType ==
  ASSUME TypeOK, \/ _schedule_loot_lottery \/ _worker \/ _pick_returns
                 \/ \E u \in Users \cup {NoUser} : _pick_get(u)
                 \/ redeem_loyalty_lottery_visits
  PROVE  TypeOK'
<1>1. CASE _schedule_loot_lottery
  BY <1>1, HappenedType, DefersType DEF TypeOK, _schedule_loot_lottery, Tasks, Histories, Happened
<1>2. CASE _worker
  <2>1. lottery' \in Lotteries
    BY <1>2 DEF TypeOK, _worker, Lotteries
  <2>2. tasks' \in [Tasks -> Nat]
    BY <1>2 DEF TypeOK, _worker, Tasks
  <2>3. history' \in Histories
    <3>1. PICK again \in {FALSE} \cup {MayHappen} : history' = Happened(again)
      BY <1>2 DEF _worker
    <3>2. history \in Histories
      BY DEF TypeOK
    <3> QED
      BY <3>1, <3>2, HappenedType
  <2> QED
    BY <1>2, <2>1, <2>2, <2>3 DEF TypeOK, _worker
<1>3. CASE _pick_returns
  BY <1>3 DEF TypeOK, _pick_returns, Tasks
<1>4. CASE \E u \in Users \cup {NoUser} : _pick_get(u)
  <2>1. held' \subseteq Held
    BY <1>4, HoldsType DEF _pick_get
  <2>2. tasks' \in [Tasks -> Nat]
    BY <1>4 DEF TypeOK, _pick_get, Tasks
  <2> QED
    BY <1>4, <2>1, <2>2 DEF TypeOK, _pick_get
<1>5. CASE redeem_loyalty_lottery_visits
  <2>1. tasks' \in [Tasks -> Nat]
    BY <1>5 DEF TypeOK, redeem_loyalty_lottery_visits, Tasks
  <2>2. history' \in Histories
    BY <1>5, HappenedType DEF TypeOK, redeem_loyalty_lottery_visits
  <2>3. /\ visits' \in [Users \X Days -> VisitStates]
        /\ statistics' \in [Users -> Nat]
    BY <1>5 DEF TypeOK, VisitStates, redeem_loyalty_lottery_visits, NoCount
  <2> QED
    BY <1>5, <2>1, <2>2, <2>3 DEF TypeOK, redeem_loyalty_lottery_visits
<1> QED
  BY <1>1, <1>2, <1>3, <1>4, <1>5

LEMMA WritesType ==
  ASSUME TypeOK, HeldCopies, NEW h \in held, Writes(h) \/ _pick_dies(h)
  PROVE  TypeOK'
<1>0. /\ h \in Held /\ h.copy \in Lotteries /\ h.user \in Users \cup {NoUser}
      /\ held \ {h} \subseteq Held /\ history \in Histories
  BY HeldTypes DEF TypeOK
<1>1. CASE edit_loyalty_lottery_info(h) \/ close_loyalty_lottery_info(h)
  <2>1. lottery' \in Lotteries
    BY <1>0, <1>1 DEF edit_loyalty_lottery_info, close_loyalty_lottery_info, Puts, Lotteries
  <2> QED
    BY <1>0, <1>1, <2>1, OverwrittenType
    DEF TypeOK, edit_loyalty_lottery_info, close_loyalty_lottery_info, Puts
<1>2. CASE _pick_nobody(h)
  BY <1>0, <1>2, OverwrittenType DEF TypeOK, _pick_nobody, Puts, Lotteries
<1>3. CASE _pick_winner(h)
  <2>1. lottery' \in Lotteries
    BY <1>0, <1>3 DEF _pick_winner, Puts, Lotteries
  <2>2. tasks' \in [Tasks -> Nat]
    BY <1>3, DefersType DEF _pick_winner, Tasks
  <2> QED
    BY <1>0, <1>3, <2>1, <2>2, OverwrittenType DEF TypeOK, _pick_winner, Puts
<1>4. CASE redeem_lottery_winner(h)
  <2>1. lottery' \in Lotteries
    BY <1>0, <1>4 DEF redeem_lottery_winner, Puts, Lotteries
  <2>2. tasks' \in [Tasks -> Nat]
    BY <1>4, DefersType DEF TypeOK, redeem_lottery_winner, Tasks
  <2>3. history' \in Histories
    <3>1. PICK dies \in {FALSE} \cup {MayHappen} :
            history' = [NowOverwritten(h) EXCEPT !.confirmed = @ \cup {h.user},
                                                 !.events = IF dies THEN @ + 1 ELSE @]
      BY <1>4 DEF redeem_lottery_winner
    <3>2. /\ NowOverwritten(h) \in Histories /\ NowOverwritten(h).events = history.events
          /\ h.user \in Users
      BY <1>0, <1>4, OverwrittenType
      DEF NowOverwritten, Histories, HeldCopies, redeem_lottery_winner, Puts
    <3>3. (IF dies THEN history.events + 1 ELSE history.events) \in 0 .. MaxEvents
      <4>1. history.events \in 0 .. MaxEvents /\ MaxEvents \in Nat
        BY <1>0, LotteryAssumption DEF Histories
      <4>2. CASE dies
        <5>1. history.events < MaxEvents
          BY <4>2 DEF MayHappen
        <5> QED
          BY <4>1, <4>2, <5>1
      <4>3. CASE ~dies
        BY <4>1, <4>3
      <4> QED
        BY <4>2, <4>3
    <3> QED
      BY <3>1, <3>2, <3>3 DEF Histories
  <2> QED
    BY <1>0, <1>4, <2>1, <2>2, <2>3 DEF TypeOK, redeem_lottery_winner, Puts
<1>5. CASE _pick_dies(h)
  <2>1. tasks' \in [Tasks -> Nat]
    BY <1>5, DefersType DEF _pick_dies, Tasks
  <2> QED
    BY <1>0, <1>5, <2>1, HappenedType DEF TypeOK, _pick_dies
<1> QED
  BY <1>1, <1>2, <1>3, <1>4, <1>5 DEF Writes

LEMMA PrizeType ==
  ASSUME TypeOK, redeem_loyalty_for_user_lottery \/ \E u \in Users : confirm_get(u)
  PROVE  TypeOK'
<1>1. CASE redeem_loyalty_for_user_lottery
  <2>1. tasks' \in [Tasks -> Nat]
    BY <1>1, DefersType DEF TypeOK, redeem_loyalty_for_user_lottery, Tasks
  <2> QED
    BY <1>1, <2>1 DEF TypeOK, redeem_loyalty_for_user_lottery, Lotteries
<1>2. ASSUME NEW u \in Users, confirm_get(u)
      PROVE  TypeOK'
  BY <1>2, HoldsType DEF TypeOK, confirm_get
<1> QED
  BY <1>1, <1>2

LEMMA NextTypeOK ==
  ASSUME TypeOK, HeldCopies, [Next]_vars
  PROVE  TypeOK'
<1>1. CASE UNCHANGED vars
  BY <1>1 DEF TypeOK, vars
<1> QED
  BY <1>1, VisitsType, SettingsType, TasksType, WritesType, PrizeType DEF Next

-----------------------------------------------------------------------------
(* The copies.                                                             *)

LEMMA NewCopy ==
  ASSUME HeldCopies, NEW op, NEW u, Holds(op, u),
         op \in {"pick", "confirm"} => ~lottery.claimed,
         op = "confirm" => u \in Users /\ u = lottery.winner
  PROVE  HeldCopies'
  BY DEF HeldCopies, Holds

LEMMA FewerCopies ==
  ASSUME HeldCopies, held' \subseteq held
  PROVE  HeldCopies'
  BY DEF HeldCopies

LEMMA NextHeldCopies ==
  ASSUME HeldCopies, [Next]_vars
  PROVE  HeldCopies'
<1>1. CASE edit_get
  BY <1>1, NewCopy DEF edit_get
<1>2. CASE close_get
  BY <1>2, NewCopy DEF close_get
<1>3. CASE \E u \in Users \cup {NoUser} : _pick_get(u)
  BY <1>3, NewCopy DEF _pick_get, IsDrawn
<1>4. ASSUME NEW u \in Users, confirm_get(u)
      PROVE  HeldCopies'
  BY <1>4, NewCopy DEF confirm_get, IsDrawn
<1>5. ASSUME NEW h \in held, Writes(h) \/ _pick_dies(h)
      PROVE  HeldCopies'
  BY <1>5, FewerCopies
  DEF Writes, Puts, edit_loyalty_lottery_info, close_loyalty_lottery_info, _pick_winner,
      _pick_nobody, redeem_lottery_winner, _pick_dies
<1>6. ASSUME NEW u \in Users, NEW d \in Days,
             add_loyalty_for_user_lottery(u, d) \/ delete_visit(u, d)
      PROVE  HeldCopies'
  BY <1>6, FewerCopies DEF add_loyalty_for_user_lottery, delete_visit
<1>7. CASE \/ add_loyalty_lottery_info \/ put_loyalty_settings \/ _schedule_loot_lottery
           \/ _worker \/ _pick_returns \/ redeem_loyalty_for_user_lottery
           \/ redeem_loyalty_lottery_visits \/ UNCHANGED vars
  BY <1>7, FewerCopies
  DEF add_loyalty_lottery_info, put_loyalty_settings, _schedule_loot_lottery, _worker,
      _pick_returns, redeem_loyalty_for_user_lottery, redeem_loyalty_lottery_visits, vars
<1> QED
  BY <1>1, <1>2, <1>3, <1>4, <1>5, <1>6, <1>7 DEF Next

-----------------------------------------------------------------------------
(* The visits that are counted.                                            *)

LEMMA OpenVisitsFinite ==
  ASSUME TypeOK, NEW u \in Users
  PROVE  /\ IsFiniteSet(OpenVisits(u)) /\ Cardinality(OpenVisits(u)) \in Nat
         /\ statistics[u] \in Nat
  BY LotteryAssumption, FS_Subset, FS_CardinalityType DEF OpenVisits, TypeOK

LEMMA AddCounted ==
  ASSUME TypeOK, CountedVisitsExist, NEW u \in Users, NEW d \in Days,
         add_loyalty_for_user_lottery(u, d)
  PROVE  CountedVisitsExist'
<1> SUFFICES ASSUME NEW w \in Users
             PROVE  statistics'[w] <= Cardinality(OpenVisits(w)')
  BY DEF CountedVisitsExist
<1>1. CASE w = u
  <2>1. OpenVisits(u)' = OpenVisits(u) \cup {d} /\ d \notin OpenVisits(u)
    BY DEF OpenVisits, OpenAs, add_loyalty_for_user_lottery, TypeOK
  <2>2. Cardinality(OpenVisits(u)') = Cardinality(OpenVisits(u)) + 1
    BY <2>1, OpenVisitsFinite, FS_AddElement
  <2>3. statistics'[u] = statistics[u] + 1
    BY DEF add_loyalty_for_user_lottery, TypeOK
  <2> QED
    BY <1>1, <2>2, <2>3, OpenVisitsFinite DEF CountedVisitsExist
<1>2. CASE w # u
  <2>1. OpenVisits(w)' = OpenVisits(w) /\ statistics'[w] = statistics[w]
    BY <1>2 DEF OpenVisits, OpenAs, add_loyalty_for_user_lottery, TypeOK
  <2> QED
    BY <2>1 DEF CountedVisitsExist
<1> QED
  BY <1>1, <1>2

LEMMA DeleteCounted ==
  ASSUME TypeOK, CountedVisitsExist, NEW u \in Users, NEW d \in Days, delete_visit(u, d)
  PROVE  CountedVisitsExist'
<1> SUFFICES ASSUME NEW w \in Users
             PROVE  statistics'[w] <= Cardinality(OpenVisits(w)')
  BY DEF CountedVisitsExist
<1>1. CASE w = u
  <2>1. OpenVisits(u)' = OpenVisits(u) \ {d}
    BY DEF OpenVisits, delete_visit, TypeOK
  <2>2. /\ Cardinality(OpenVisits(u)') \in Nat
        /\ Cardinality(OpenVisits(u)) - 1 <= Cardinality(OpenVisits(u)')
    <3>1. /\ IsFiniteSet(OpenVisits(u)) /\ Cardinality(OpenVisits(u)) \in Nat
          /\ IsFiniteSet(OpenVisits(u) \ {d})
      BY OpenVisitsFinite, FS_RemoveElement
    <3>2. Cardinality(OpenVisits(u) \ {d}) =
            IF d \in OpenVisits(u) THEN Cardinality(OpenVisits(u)) - 1
            ELSE Cardinality(OpenVisits(u))
      BY <3>1, FS_RemoveElement
    <3>3. Cardinality(OpenVisits(u) \ {d}) \in Nat
      BY <3>1, FS_CardinalityType
    <3> QED
      BY <2>1, <3>1, <3>2, <3>3
  <2>3. statistics'[u] = IF statistics[u] > 0 THEN statistics[u] - 1 ELSE 0
    BY DEF delete_visit, TypeOK
  <2> QED
    BY <1>1, <2>2, <2>3, OpenVisitsFinite DEF CountedVisitsExist
<1>2. CASE w # u
  <2>1. OpenVisits(w)' = OpenVisits(w) /\ statistics'[w] = statistics[w]
    BY <1>2 DEF OpenVisits, delete_visit, TypeOK
  <2> QED
    BY <2>1 DEF CountedVisitsExist
<1> QED
  BY <1>1, <1>2

LEMMA NextCounted ==
  ASSUME TypeOK, TypeOK', CountedVisitsExist, [Next]_vars
  PROVE  CountedVisitsExist'
<1>1. CASE redeem_loyalty_lottery_visits
  <2> SUFFICES ASSUME NEW u \in Users
               PROVE  statistics'[u] <= Cardinality(OpenVisits(u)')
    BY DEF CountedVisitsExist
  <2>1. statistics'[u] = 0
    BY <1>1 DEF redeem_loyalty_lottery_visits, NoCount
  <2>2. Cardinality(OpenVisits(u)') \in Nat
    BY LotteryAssumption, FS_Subset, FS_CardinalityType DEF OpenVisits
  <2> QED
    BY <2>1, <2>2
<1>2. CASE UNCHANGED <<visits, statistics>>
  BY <1>2 DEF CountedVisitsExist, OpenVisits
<1>3. \/ \E u \in Users, d \in Days : add_loyalty_for_user_lottery(u, d) \/ delete_visit(u, d)
      \/ redeem_loyalty_lottery_visits
      \/ UNCHANGED <<visits, statistics>>
  BY DEF Next, Writes, add_loyalty_lottery_info, put_loyalty_settings,
         _schedule_loot_lottery, _worker, _pick_returns, redeem_loyalty_for_user_lottery,
         edit_get, close_get, _pick_get, confirm_get, edit_loyalty_lottery_info,
         close_loyalty_lottery_info, _pick_winner, _pick_nobody, redeem_lottery_winner,
         _pick_dies, vars
<1> QED
  BY <1>1, <1>2, <1>3, AddCounted, DeleteCounted

-----------------------------------------------------------------------------
(* The one who was told that the prize is his.                             *)

Told == LotteryExists /\ ConfirmedIsWinner

(* A copy that is put over a claim, or over another winner, is accounted.  *)
LEMMA PutTold ==
  ASSUME TypeOK, HeldCopies, Told, NEW h \in held,
         \/ edit_loyalty_lottery_info(h) \/ close_loyalty_lottery_info(h)
         \/ _pick_nobody(h) \/ _pick_winner(h)
  PROVE  Told'
<1>1. /\ h.copy \in Lotteries /\ h.copy.exists /\ history \in Histories /\ lottery \in Lotteries
      /\ h.op = "pick" => ~h.copy.claimed
  BY HeldTypes DEF HeldCopies, TypeOK
<1>2. /\ history'.confirmed = history.confirmed
      /\ ~history'.overwritten => /\ ~history.overwritten
                                  /\ lottery.claimed = h.copy.claimed
                                  /\ lottery.winner = h.copy.winner
  BY <1>1 DEF edit_loyalty_lottery_info, close_loyalty_lottery_info, _pick_nobody,
              _pick_winner, NowOverwritten, Histories
<1>3. CASE edit_loyalty_lottery_info(h) \/ close_loyalty_lottery_info(h)
  <2>1. /\ lottery'.exists /\ lottery'.claimed = h.copy.claimed
        /\ lottery'.winner = h.copy.winner
    BY <1>1, <1>3 DEF edit_loyalty_lottery_info, close_loyalty_lottery_info, Puts, Lotteries
  <2> QED
    BY <1>2, <2>1 DEF Told, LotteryExists, ConfirmedIsWinner
<1>4. CASE _pick_nobody(h) \/ _pick_winner(h)
  <2>1. lottery'.exists /\ ~h.copy.claimed
    BY <1>1, <1>4 DEF _pick_nobody, _pick_winner, Puts, Lotteries
  <2> QED
    BY <1>2, <2>1 DEF Told, LotteryExists, ConfirmedIsWinner
<1> QED
  BY <1>3, <1>4

LEMMA ConfirmTold ==
  ASSUME TypeOK, HeldCopies, Told, NEW h \in held, redeem_lottery_winner(h)
  PROVE  Told'
<1>1. /\ h.copy \in Lotteries /\ h.copy.exists /\ history \in Histories /\ lottery \in Lotteries
      /\ ~h.copy.claimed /\ h.user = h.copy.winner
  BY HeldTypes DEF HeldCopies, TypeOK, redeem_lottery_winner, Puts
<1>2. /\ history'.confirmed = history.confirmed \cup {h.user}
      /\ ~history'.overwritten => ~history.overwritten /\ lottery.claimed = h.copy.claimed
  BY <1>1 DEF redeem_lottery_winner, NowOverwritten, Histories
<1>3. lottery'.exists /\ lottery'.claimed /\ lottery'.winner = h.copy.winner
  BY <1>1 DEF redeem_lottery_winner, Puts, Lotteries
<1> QED
  BY <1>1, <1>2, <1>3 DEF Told, LotteryExists, ConfirmedIsWinner

LEMMA NextTold ==
  ASSUME TypeOK, HeldCopies, Told, [Next]_vars
  PROVE  Told'
<1>1. history \in Histories /\ lottery \in Lotteries
  BY DEF TypeOK
<1>2. CASE add_loyalty_lottery_info
  BY <1>1, <1>2 DEF add_loyalty_lottery_info, Told, LotteryExists, ConfirmedIsWinner
<1>3. ASSUME lottery'.exists = lottery.exists, lottery'.winner = lottery.winner,
             lottery.claimed => lottery'.claimed,
             history'.confirmed = history.confirmed,
             history'.overwritten = history.overwritten
      PROVE  Told'
  BY <1>3 DEF Told, LotteryExists, ConfirmedIsWinner
<1>4. CASE _worker
  BY <1>1, <1>3, <1>4, HappenedType DEF _worker, Lotteries
<1>5. CASE redeem_loyalty_for_user_lottery
  BY <1>1, <1>3, <1>5 DEF redeem_loyalty_for_user_lottery, Lotteries
<1>6. CASE redeem_loyalty_lottery_visits \/ _schedule_loot_lottery \/ put_loyalty_settings
  BY <1>1, <1>3, <1>6, HappenedType
  DEF redeem_loyalty_lottery_visits, _schedule_loot_lottery, put_loyalty_settings, Happened,
      Histories
<1>7. ASSUME NEW h \in held, _pick_dies(h)
      PROVE  Told'
  BY <1>1, <1>3, <1>7 DEF _pick_dies, Happened, Histories
<1>8. ASSUME NEW u \in Users, NEW d \in Days,
             add_loyalty_for_user_lottery(u, d) \/ delete_visit(u, d)
      PROVE  Told'
  BY <1>1, <1>3, <1>8 DEF add_loyalty_for_user_lottery, delete_visit, Happened, Histories
<1>9. CASE edit_get \/ close_get
  BY <1>1, <1>3, <1>9 DEF edit_get, close_get, Happened, Histories
<1>10. CASE \/ \E u \in Users \cup {NoUser} : _pick_get(u)
            \/ _pick_returns \/ (\E u \in Users : confirm_get(u)) \/ UNCHANGED vars
  BY <1>3, <1>10 DEF _pick_get, _pick_returns, confirm_get, vars
<1> QED
  BY <1>2, <1>4, <1>5, <1>6, <1>7, <1>8, <1>9, <1>10, PutTold, ConfirmTold DEF Next, Writes

-----------------------------------------------------------------------------
LEMMA InitIInv == Init => IInv
<1> SUFFICES ASSUME Init PROVE IInv
  OBVIOUS
<1>1. HeldCopies /\ LotteryExists /\ ConfirmedIsWinner
  BY DEF Init, HeldCopies, LotteryExists, ConfirmedIsWinner
<1>2. CountedVisitsExist
  BY InitTypeOK, OpenVisitsFinite DEF Init, NoCount, CountedVisitsExist
<1> QED
  BY <1>1, <1>2, InitTypeOK DEF IInv

LEMMA NextIInv == IInv /\ [Next]_vars => IInv'
  BY NextTypeOK, NextHeldCopies, NextCounted, NextTold DEF IInv, Told

(* Every variable keeps its type: the counts of the visits, of which a     *)
(* draw makes its list, do not go below zero.                              *)
THEOREM TypeCorrect == Spec => []TypeOK
<1>1. IInv => TypeOK
  BY DEF IInv
<1> QED
  BY <1>1, InitIInv, NextIInv, PTL DEF Spec

(* Whoever can be drawn has an open visit, though visits are deleted after *)
(* they were redeemed, tasks run twice and old copies are put back: the    *)
(* draw (_pick_winner) finds the visit that it looks for.                  *)
THEOREM DrawsFindAVisit == Spec => []CountedVisitsExist
<1>1. IInv => CountedVisitsExist
  BY DEF IInv
<1> QED
  BY <1>1, InitIInv, NextIInv, PTL DEF Spec

(* Who was told that the prize is his stays the winner, unless a copy was  *)
(* put over his claim.                                                     *)
THEOREM PrizeIsKept == Spec => []ConfirmedIsWinner
<1>1. IInv => ConfirmedIsWinner
  BY DEF IInv
<1> QED
  BY <1>1, InitIInv, NextIInv, PTL DEF Spec

-----------------------------------------------------------------------------
(* The lottery of a city.                                                  *)

CityHistories == [overwritten: BOOLEAN, events: 0 .. MaxCityEvents]

(* The operators of the library are those of the instance.                 *)
LEMMA CityFinite ==
  ASSUME NEW S
  PROVE  City!IsFiniteSet(S) <=> IsFiniteSet(S)
  BY DEF City!IsFiniteSet, IsFiniteSet

LEMMA CitySum ==
  ASSUME NEW w, NEW S
  PROVE  City!SumFunctionOnSet(w, S) = Sum(w, S)
  BY DEF Sum, City!SumFunctionOnSet, SumFunctionOnSet, City!FoldFunctionOnSet,
         FoldFunctionOnSet, City!MapThenFoldSet, MapThenFoldSet

(* A draw holds a copy of a lottery that has no winners.                   *)
HeldUndrawn == \A h \in city_held : h.op = "pick" => h.copy.winners = {}

CityInv ==
  /\ City!CityWideLotteryAssumption /\ City!TypeOK
  /\ HeldUndrawn /\ City!CountedVisitsExist

LEMMA CityHappenedType ==
  ASSUME City!CityWideLotteryAssumption, City!TypeOK, NEW it, it => City!MayHappen
  PROVE  /\ City!Happened(it) \in CityHistories
         /\ City!Happened(it).overwritten = city_history.overwritten
<1>1. /\ city_history \in CityHistories /\ city_history.events \in 0 .. MaxCityEvents
      /\ MaxCityEvents \in Nat
  BY DEF City!TypeOK, City!CityWideLotteryAssumption, CityHistories
<1>2. CASE it
  <2>1. city_history.events < MaxCityEvents
    BY <1>2 DEF City!MayHappen
  <2>2. city_history.events + 1 \in 0 .. MaxCityEvents
    BY <1>1, <2>1
  <2>3. City!Happened(it) = [city_history EXCEPT !.events = city_history.events + 1]
    BY <1>2 DEF City!Happened
  <2> QED
    BY <1>1, <2>2, <2>3 DEF CityHistories
<1>3. CASE ~it
  <2>1. City!Happened(it) = [city_history EXCEPT !.events = city_history.events]
    BY <1>3 DEF City!Happened
  <2> QED
    BY <1>1, <2>1 DEF CityHistories
<1> QED
  BY <1>2, <1>3

LEMMA CityDefersType ==
  ASSUME City!TypeOK, NEW t \in City!Tasks, City!Defers(t)
  PROVE  city_tasks' \in [City!Tasks -> Nat]
  BY DEF City!TypeOK, City!Defers

LEMMA CityRunsType ==
  ASSUME City!CityWideLotteryAssumption, City!TypeOK, NEW t \in City!Tasks,
         NEW again \in BOOLEAN, City!Runs(t, again)
  PROVE  city_tasks' \in [City!Tasks -> Nat] /\ city_history' \in CityHistories
<1>1. city_tasks \in [City!Tasks -> Nat] /\ city_tasks[t] - 1 \in Nat
  BY DEF City!TypeOK, City!Runs
<1>2. city_tasks' \in [City!Tasks -> Nat]
  BY <1>1 DEF City!Runs
<1>3. again => City!MayHappen
  BY DEF City!Runs
<1>4. City!Happened(again) \in CityHistories
  BY <1>3, CityHappenedType
<1> QED
  BY <1>2, <1>4 DEF City!Runs

LEMMA CityTasksAre ==
  /\ \A v \in Visits : <<"add", v>> \in City!Tasks /\ <<"delete", v>> \in City!Tasks
  /\ City!worker \in City!Tasks /\ City!pick \in City!Tasks /\ City!redeem \in City!Tasks
  BY DEF City!Tasks, City!worker, City!pick, City!redeem

LEMMA CityHoldsType ==
  ASSUME City!TypeOK, NEW op \in {"pick", "edit", "close"}, NEW W \in SUBSET Users,
         City!Holds(op, W)
  PROVE  city_held' \subseteq City!Held
  BY DEF City!TypeOK, City!Holds, City!Held

LEMMA CityInitType ==
  ASSUME City!CityWideLotteryAssumption, City!Init
  PROVE  City!TypeOK
  BY DEF City!CityWideLotteryAssumption, City!Init, City!TypeOK, City!Lotteries

LEMMA CityVisitsType ==
  ASSUME City!CityWideLotteryAssumption, City!TypeOK, NEW v \in Visits,
         \/ City!add_loyalty_for_user(v) \/ City!delete_visit(v)
         \/ City!add_city_wide_lottery_visit(v) \/ City!delete_city_wide_lottery_visit(v)
  PROVE  City!TypeOK'
<1>0. /\ <<"add", v>> \in City!Tasks /\ <<"delete", v>> \in City!Tasks
      /\ visitor \in [Visits -> Users] /\ city_statistics \in [Users -> Nat]
      /\ city_visits \in [Visits -> [open: Nat, redeemed: Nat]]
  BY CityTasksAre DEF City!TypeOK, City!CityWideLotteryAssumption
<1>1. CASE City!add_loyalty_for_user(v)
  <2>1. city_tasks' \in [City!Tasks -> Nat]
    BY <1>0, <1>1, CityDefersType DEF City!add_loyalty_for_user
  <2> QED
    BY <1>1, <2>1 DEF City!add_loyalty_for_user, City!TypeOK
<1>2. CASE City!delete_visit(v)
  <2>1. city_tasks' \in [City!Tasks -> Nat]
    BY <1>0, <1>2, CityDefersType DEF City!delete_visit
  <2>2. city_history' \in CityHistories
    BY <1>2, CityHappenedType DEF City!delete_visit
  <2> QED
    BY <1>2, <2>1, <2>2 DEF City!delete_visit, City!TypeOK, CityHistories
<1>3. CASE City!add_city_wide_lottery_visit(v)
  <2>1. city_tasks' \in [City!Tasks -> Nat] /\ city_history' \in CityHistories
    BY <1>0, <1>3, CityRunsType DEF City!add_city_wide_lottery_visit
  <2>2. city_visits' \in [Visits -> [open: Nat, redeemed: Nat]]
    BY <1>0, <1>3 DEF City!add_city_wide_lottery_visit
  <2>3. city_statistics' \in [Users -> Nat]
    BY <1>0, <1>3 DEF City!add_city_wide_lottery_visit
  <2> QED
    BY <1>3, <2>1, <2>2, <2>3
    DEF City!add_city_wide_lottery_visit, City!TypeOK, CityHistories
<1>4. CASE City!delete_city_wide_lottery_visit(v)
  <2>1. city_tasks' \in [City!Tasks -> Nat] /\ city_history' \in CityHistories
    BY <1>0, <1>4, CityRunsType DEF City!delete_city_wide_lottery_visit
  <2>2. city_visits' \in [Visits -> [open: Nat, redeemed: Nat]]
    BY <1>0, <1>4 DEF City!delete_city_wide_lottery_visit
  <2>3. city_statistics' \in [Users -> Nat]
    BY <1>0, <1>4 DEF City!delete_city_wide_lottery_visit
  <2> QED
    BY <1>4, <2>1, <2>2, <2>3
    DEF City!delete_city_wide_lottery_visit, City!TypeOK, CityHistories
<1> QED
  BY <1>1, <1>2, <1>3, <1>4

LEMMA CitySettingsType ==
  ASSUME City!CityWideLotteryAssumption, City!TypeOK,
         \/ City!add_city_wide_lottery_info \/ City!LosesModule
         \/ City!edit_get \/ City!close_get
  PROVE  City!TypeOK'
<1>1. CASE City!add_city_wide_lottery_info
  BY <1>1 DEF City!add_city_wide_lottery_info, City!TypeOK, City!Lotteries, City!others
<1>2. CASE City!LosesModule
  BY <1>2, CityHappenedType DEF City!LosesModule, City!TypeOK, CityHistories
<1>3. CASE City!edit_get \/ City!close_get
  <2>1. city_held' \subseteq City!Held
    BY <1>3, CityHoldsType DEF City!edit_get, City!close_get
  <2>2. city_history' \in CityHistories
    BY <1>3, CityHappenedType DEF City!edit_get, City!close_get
  <2> QED
    BY <1>3, <2>1, <2>2
    DEF City!edit_get, City!close_get, City!TypeOK, City!others, CityHistories
<1> QED
  BY <1>1, <1>2, <1>3

LEMMA CityDrawType ==
  ASSUME City!CityWideLotteryAssumption, City!TypeOK,
         \/ City!_schedule_loot_city_wide_lottery \/ City!_worker_city_wide_lottery
         \/ City!_pick_returns \/ City!_pick_get \/ City!_redeem_city_wide_lottery_visits
  PROVE  City!TypeOK'
<1>1. CASE City!_schedule_loot_city_wide_lottery
  <2>1. city_tasks' \in [City!Tasks -> Nat]
    BY <1>1, CityTasksAre, CityDefersType DEF City!_schedule_loot_city_wide_lottery
  <2>2. city_history' \in CityHistories
    BY <1>1, CityHappenedType DEF City!_schedule_loot_city_wide_lottery
  <2> QED
    BY <1>1, <2>1, <2>2
    DEF City!_schedule_loot_city_wide_lottery, City!TypeOK, City!others, CityHistories
<1>2. CASE City!_worker_city_wide_lottery
  <2>1. PICK again \in {FALSE} \cup {City!MayHappen} :
          /\ city_tasks' = [city_tasks EXCEPT
               ![City!worker] = IF again THEN @ ELSE @ - 1,
               ![City!pick] = IF hidden_module THEN @ + 1 ELSE @]
          /\ city_history' = City!Happened(again)
    BY <1>2 DEF City!_worker_city_wide_lottery
  <2>2. city_tasks' \in [City!Tasks -> Nat]
    BY <1>2, <2>1, CityTasksAre
    DEF City!_worker_city_wide_lottery, City!TypeOK, City!worker, City!pick
  <2>3. city_history' \in CityHistories
    <3>1. again => City!MayHappen
      OBVIOUS
    <3> QED
      BY <2>1, <3>1, CityHappenedType
  <2>4. sln_cwl' \in City!Lotteries
    BY <1>2 DEF City!_worker_city_wide_lottery, City!TypeOK, City!Lotteries
  <2> QED
    BY <1>2, <2>2, <2>3, <2>4
    DEF City!_worker_city_wide_lottery, City!TypeOK, City!others, CityHistories
<1>3. CASE City!_pick_returns
  <2>1. city_tasks' \in [City!Tasks -> Nat] /\ city_history' \in CityHistories
    BY <1>3, CityTasksAre, CityRunsType DEF City!_pick_returns
  <2> QED
    BY <1>3, <2>1 DEF City!_pick_returns, City!TypeOK, City!others, CityHistories
<1>4. CASE City!_pick_get
  <2>1. city_tasks' \in [City!Tasks -> Nat] /\ city_history' \in CityHistories
    BY <1>4, CityTasksAre, CityRunsType DEF City!_pick_get
  <2>2. PICK W \in SUBSET City!PossibleWinners : City!Holds("pick", W)
    BY <1>4 DEF City!_pick_get, City!kSubset
  <2>3. W \in SUBSET Users
    BY DEF City!PossibleWinners
  <2>4. city_held' \subseteq City!Held
    BY <2>2, <2>3, CityHoldsType
  <2> QED
    BY <1>4, <2>1, <2>4 DEF City!_pick_get, City!TypeOK, City!others, CityHistories
<1>5. CASE City!_redeem_city_wide_lottery_visits
  <2>1. city_tasks' \in [City!Tasks -> Nat] /\ city_history' \in CityHistories
    BY <1>5, CityTasksAre, CityRunsType DEF City!_redeem_city_wide_lottery_visits
  <2>2. /\ city_visits' \in [Visits -> [open: Nat, redeemed: Nat]]
        /\ city_statistics' \in [Users -> Nat]
    BY <1>5 DEF City!_redeem_city_wide_lottery_visits, City!TypeOK
  <2> QED
    BY <1>5, <2>1, <2>2
    DEF City!_redeem_city_wide_lottery_visits, City!TypeOK, CityHistories
<1> QED
  BY <1>1, <1>2, <1>3, <1>4, <1>5

LEMMA CityWritesType ==
  ASSUME City!CityWideLotteryAssumption, City!TypeOK, NEW h \in city_held, City!Writes(h)
  PROVE  City!TypeOK'
<1>0. /\ h.copy \in City!Lotteries /\ h.winners \in SUBSET Users
      /\ city_held \ {h} \subseteq City!Held
      /\ city_history \in CityHistories
  BY DEF City!TypeOK, City!Held, CityHistories
<1>1. ASSUME NEW op, NEW new, City!Puts(h, op, new)
      PROVE  city_history' \in CityHistories
  BY <1>0, <1>1 DEF City!Puts, CityHistories
<1>2. CASE City!edit_city_wide_lottery_info(h) \/ City!close_city_wide_lottery_info(h)
  <2>1. sln_cwl' \in City!Lotteries
    BY <1>0, <1>2
    DEF City!edit_city_wide_lottery_info, City!close_city_wide_lottery_info, City!Puts,
        City!Lotteries
  <2>2. city_history' \in CityHistories
    BY <1>1, <1>2
    DEF City!edit_city_wide_lottery_info, City!close_city_wide_lottery_info
  <2> QED
    BY <1>0, <1>2, <2>1, <2>2
    DEF City!edit_city_wide_lottery_info, City!close_city_wide_lottery_info, City!Puts,
        City!TypeOK, City!others, CityHistories
<1>3. CASE City!_pick_city_wide_lottery_winner(h)
  <2>1. sln_cwl' \in City!Lotteries
    BY <1>0, <1>3 DEF City!_pick_city_wide_lottery_winner, City!Puts, City!Lotteries
  <2>2. city_history' \in CityHistories
    BY <1>1, <1>3 DEF City!_pick_city_wide_lottery_winner
  <2>3. city_tasks' \in [City!Tasks -> Nat]
    BY <1>3, CityTasksAre, CityDefersType
    DEF City!_pick_city_wide_lottery_winner, City!TypeOK
  <2> QED
    BY <1>0, <1>3, <2>1, <2>2, <2>3
    DEF City!_pick_city_wide_lottery_winner, City!Puts, City!TypeOK, City!others,
        CityHistories
<1> QED
  BY <1>2, <1>3 DEF City!Writes

LEMMA CityNextType ==
  ASSUME City!CityWideLotteryAssumption, City!TypeOK, [City!Next]_City!vars
  PROVE  City!TypeOK'
<1>1. CASE UNCHANGED City!vars
  BY <1>1 DEF City!TypeOK, City!vars
<1> QED
  BY <1>1, CityVisitsType, CitySettingsType, CityDrawType, CityWritesType DEF City!Next

-----------------------------------------------------------------------------
(* What is held.                                                           *)

LEMMA CityNewCopy ==
  ASSUME HeldUndrawn, NEW op, NEW W, City!Holds(op, W), op = "pick" => sln_cwl.winners = {}
  PROVE  HeldUndrawn'
  BY DEF HeldUndrawn, City!Holds

LEMMA CityNextUndrawn ==
  ASSUME HeldUndrawn, [City!Next]_City!vars
  PROVE  HeldUndrawn'
<1>1. CASE UNCHANGED city_held
  BY <1>1 DEF HeldUndrawn
<1>2. CASE City!edit_get \/ City!close_get
  BY <1>2, CityNewCopy DEF City!edit_get, City!close_get
<1>3. CASE City!_pick_get
  BY <1>3 DEF City!_pick_get, City!Holds, City!Undrawn, HeldUndrawn
<1>4. ASSUME NEW h \in city_held, City!Writes(h)
      PROVE  HeldUndrawn'
  BY <1>4
  DEF City!Writes, City!edit_city_wide_lottery_info, City!close_city_wide_lottery_info,
      City!_pick_city_wide_lottery_winner, City!Puts, HeldUndrawn
<1>5. \/ UNCHANGED city_held \/ City!edit_get \/ City!close_get \/ City!_pick_get
      \/ \E h \in city_held : City!Writes(h)
  BY DEF City!Next, City!vars, City!add_loyalty_for_user, City!delete_visit,
         City!add_city_wide_lottery_visit, City!delete_city_wide_lottery_visit,
         City!add_city_wide_lottery_info, City!LosesModule,
         City!_schedule_loot_city_wide_lottery, City!_worker_city_wide_lottery,
         City!_pick_returns, City!_redeem_city_wide_lottery_visits
<1> QED
  BY <1>1, <1>2, <1>3, <1>4, <1>5

-----------------------------------------------------------------------------
(* The visits that are counted, of one or of several shops and days.       *)

Open == [v \in Visits |-> city_visits[v].open]
VisitsOf(u) == {v \in Visits : visitor[v] = u}

LEMMA CityOpenVisits ==
  ASSUME City!CityWideLotteryAssumption, City!TypeOK, NEW u
  PROVE  /\ City!OpenVisits(u) = Sum(Open, VisitsOf(u)) /\ IsFiniteSet(VisitsOf(u))
         /\ \A v \in VisitsOf(u) : Open[v] \in Nat
         /\ Sum(Open, VisitsOf(u)) \in Nat
<1>1. City!OpenVisits(u) = Sum(Open, VisitsOf(u))
  BY CitySum DEF City!OpenVisits, Open, VisitsOf
<1>2. IsFiniteSet(Visits)
  BY CityFinite DEF City!CityWideLotteryAssumption
<1>3. IsFiniteSet(VisitsOf(u))
  BY <1>2, FS_Subset DEF VisitsOf
<1>4. \A v \in VisitsOf(u) : Open[v] \in Nat
  BY DEF City!TypeOK, Open, VisitsOf
<1>5. Sum(Open, VisitsOf(u)) \in Nat
  BY <1>3, <1>4, SumNat
<1> QED
  BY <1>1, <1>3, <1>4, <1>5

(* One visit changes what its visitor has.                                 *)
LEMMA CityOpenChanges ==
  ASSUME City!CityWideLotteryAssumption, City!TypeOK, City!TypeOK', visitor' = visitor,
         NEW v \in Visits, \A w \in Visits : w = v \/ city_visits'[w] = city_visits[w],
         NEW u \in Users
  PROVE  City!OpenVisits(u)' =
           IF visitor[v] = u
           THEN City!OpenVisits(u) - city_visits[v].open + city_visits'[v].open
           ELSE City!OpenVisits(u)
<1>1. City!CityWideLotteryAssumption'
  BY DEF City!CityWideLotteryAssumption
<1>2. /\ City!OpenVisits(u) = Sum(Open, VisitsOf(u)) /\ IsFiniteSet(VisitsOf(u))
      /\ \A w \in VisitsOf(u) : Open[w] \in Nat
  BY CityOpenVisits
<1>3. /\ City!OpenVisits(u)' = Sum(Open', VisitsOf(u))
      /\ \A w \in VisitsOf(u) : Open'[w] \in Nat
  <2>1. VisitsOf(u)' = VisitsOf(u)
    BY DEF VisitsOf
  <2>2. /\ City!OpenVisits(u)' = Sum(Open', VisitsOf(u)')
        /\ \A w \in VisitsOf(u)' : Open'[w] \in Nat
    BY <1>1, CitySum DEF City!OpenVisits, Open, VisitsOf, City!TypeOK
  <2> QED
    BY <2>1, <2>2
<1>4. \A w \in Visits : Open[w] = city_visits[w].open /\ Open'[w] = city_visits'[w].open
  BY DEF Open
<1>5. CASE visitor[v] = u
  <2>1. v \in VisitsOf(u)
    BY <1>5 DEF VisitsOf
  <2>2. \A w \in VisitsOf(u) \ {v} : Open'[w] = Open[w]
    BY <1>4 DEF VisitsOf
  <2>3. Sum(Open', VisitsOf(u)) = Sum(Open, VisitsOf(u)) - Open[v] + Open'[v]
    BY <1>2, <1>3, <2>1, <2>2, SumChange
  <2> QED
    BY <1>2, <1>3, <1>4, <1>5, <2>3
<1>6. CASE visitor[v] # u
  <2>1. \A w \in VisitsOf(u) : Open'[w] = Open[w]
    BY <1>4, <1>6 DEF VisitsOf
  <2>2. Sum(Open', VisitsOf(u)) = Sum(Open, VisitsOf(u))
    BY <1>2, <2>1, SumSame
  <2> QED
    BY <1>2, <1>3, <1>6, <2>2
<1> QED
  BY <1>5, <1>6

LEMMA CityAddCounted ==
  ASSUME CityInv, City!TypeOK', NEW v \in Visits, City!add_city_wide_lottery_visit(v)
  PROVE  City!CountedVisitsExist'
<1> SUFFICES ASSUME NEW u \in Users
             PROVE  city_statistics'[u] <= City!OpenVisits(u)'
  BY DEF City!CountedVisitsExist
<1>1. /\ visitor' = visitor /\ visitor \in [Visits -> Users]
      /\ city_statistics \in [Users -> Nat]
      /\ city_visits \in [Visits -> [open: Nat, redeemed: Nat]]
      /\ city_statistics' = [city_statistics EXCEPT ![visitor[v]] = @ + 1]
      /\ city_visits' = [city_visits EXCEPT ![v].open = @ + 1]
  BY DEF CityInv, City!TypeOK, City!CityWideLotteryAssumption,
         City!add_city_wide_lottery_visit
<1>2. /\ \A w \in Visits : w = v \/ city_visits'[w] = city_visits[w]
      /\ city_visits'[v].open = city_visits[v].open + 1
  BY <1>1
<1>3. City!OpenVisits(u) \in Nat
  BY CityOpenVisits DEF CityInv
<1>4. City!OpenVisits(u)' = IF visitor[v] = u THEN City!OpenVisits(u) + 1
                            ELSE City!OpenVisits(u)
  <2>1. City!OpenVisits(u)' =
           IF visitor[v] = u
           THEN City!OpenVisits(u) - city_visits[v].open + city_visits'[v].open
           ELSE City!OpenVisits(u)
    BY <1>1, <1>2, CityOpenChanges DEF CityInv
  <2>2. city_visits[v].open \in Nat
    BY <1>1
  <2> QED
    BY <1>2, <1>3, <2>1, <2>2
<1>5. city_statistics'[u] = IF visitor[v] = u THEN city_statistics[u] + 1
                            ELSE city_statistics[u]
  BY <1>1
<1>6. city_statistics[u] <= City!OpenVisits(u) /\ city_statistics[u] \in Nat
  BY <1>1 DEF CityInv, City!CountedVisitsExist
<1> QED
  BY <1>3, <1>4, <1>5, <1>6

LEMMA CityDeleteCounted ==
  ASSUME CityInv, City!TypeOK', NEW v \in Visits, City!delete_city_wide_lottery_visit(v)
  PROVE  City!CountedVisitsExist'
<1> SUFFICES ASSUME NEW u \in Users
             PROVE  city_statistics'[u] <= City!OpenVisits(u)'
  BY DEF City!CountedVisitsExist
<1>1. /\ visitor' = visitor /\ visitor \in [Visits -> Users]
      /\ city_statistics \in [Users -> Nat]
      /\ city_visits \in [Visits -> [open: Nat, redeemed: Nat]]
      /\ city_statistics' =
           [city_statistics EXCEPT ![visitor[v]] = IF @ > 0 THEN @ - 1 ELSE 0]
  BY DEF CityInv, City!TypeOK, City!CityWideLotteryAssumption,
         City!delete_city_wide_lottery_visit
<1>2. /\ \A w \in Visits : w = v \/ city_visits'[w] = city_visits[w]
      /\ city_visits'[v].open \in {city_visits[v].open, city_visits[v].open - 1}
  BY <1>1 DEF City!delete_city_wide_lottery_visit
<1>3. City!OpenVisits(u) \in Nat /\ City!OpenVisits(u)' \in Nat
  <2>1. City!CityWideLotteryAssumption' /\ City!TypeOK'
    BY DEF CityInv, City!CityWideLotteryAssumption
  <2>2. City!OpenVisits(u)' = Sum(Open', VisitsOf(u)')
    BY CitySum DEF City!OpenVisits, Open, VisitsOf
  <2>3. IsFiniteSet(Visits) /\ IsFiniteSet(VisitsOf(u)')
    BY CityFinite, FS_Subset DEF CityInv, City!CityWideLotteryAssumption, VisitsOf
  <2>4. \A w \in VisitsOf(u)' : Open'[w] \in Nat
    BY <2>1 DEF City!TypeOK, Open, VisitsOf
  <2>5. Sum(Open', VisitsOf(u)') \in Nat
    BY <2>3, <2>4, SumNat
  <2> QED
    BY <2>2, <2>5, CityOpenVisits DEF CityInv
<1>4. City!OpenVisits(u)' \in {City!OpenVisits(u),
        IF visitor[v] = u THEN City!OpenVisits(u) - 1 ELSE City!OpenVisits(u)}
  <2>1. City!OpenVisits(u)' =
           IF visitor[v] = u
           THEN City!OpenVisits(u) - city_visits[v].open + city_visits'[v].open
           ELSE City!OpenVisits(u)
    BY <1>1, <1>2, CityOpenChanges DEF CityInv
  <2>2. city_visits[v].open \in Nat
    BY <1>1
  <2> QED
    BY <1>2, <1>3, <2>1, <2>2
<1>5. city_statistics'[u] =
        IF visitor[v] = u THEN (IF city_statistics[u] > 0 THEN city_statistics[u] - 1 ELSE 0)
        ELSE city_statistics[u]
  BY <1>1
<1>6. city_statistics[u] <= City!OpenVisits(u) /\ city_statistics[u] \in Nat
  BY <1>1 DEF CityInv, City!CountedVisitsExist
<1> QED
  BY <1>3, <1>4, <1>5, <1>6

LEMMA CityNextCounted ==
  ASSUME CityInv, City!TypeOK', [City!Next]_City!vars
  PROVE  City!CountedVisitsExist'
<1>1. CASE City!_redeem_city_wide_lottery_visits
  <2> SUFFICES ASSUME NEW u \in Users
               PROVE  city_statistics'[u] <= City!OpenVisits(u)'
    BY DEF City!CountedVisitsExist
  <2>1. city_statistics'[u] = 0
    BY <1>1 DEF City!_redeem_city_wide_lottery_visits
  <2>2. City!OpenVisits(u)' = Sum(Open', VisitsOf(u)')
    BY CitySum DEF City!OpenVisits, Open, VisitsOf
  <2>3. IsFiniteSet(Visits) /\ IsFiniteSet(VisitsOf(u)')
    BY CityFinite, FS_Subset DEF CityInv, City!CityWideLotteryAssumption, VisitsOf
  <2>4. \A w \in VisitsOf(u)' : Open'[w] \in Nat
    BY DEF City!TypeOK, Open, VisitsOf
  <2>5. Sum(Open', VisitsOf(u)') \in Nat
    BY <2>3, <2>4, SumNat
  <2> QED
    BY <2>1, <2>2, <2>5
<1>2. CASE UNCHANGED <<visitor, city_visits, city_statistics>>
  BY <1>2 DEF CityInv, City!CountedVisitsExist, City!OpenVisits
<1>3. \/ City!_redeem_city_wide_lottery_visits
      \/ \E v \in Visits : City!add_city_wide_lottery_visit(v)
                           \/ City!delete_city_wide_lottery_visit(v)
      \/ UNCHANGED <<visitor, city_visits, city_statistics>>
  BY DEF City!Next, City!vars, City!others, City!add_loyalty_for_user, City!delete_visit,
         City!add_city_wide_lottery_info, City!LosesModule, City!edit_get, City!close_get,
         City!_schedule_loot_city_wide_lottery, City!_worker_city_wide_lottery,
         City!_pick_returns, City!_pick_get, City!Writes, City!edit_city_wide_lottery_info,
         City!close_city_wide_lottery_info, City!_pick_city_wide_lottery_winner
<1> QED
  BY <1>1, <1>2, <1>3, CityAddCounted, CityDeleteCounted

-----------------------------------------------------------------------------
(* The winners.                                                            *)

LEMMA CityWinners ==
  ASSUME CityInv, [City!Next]_City!vars,
         sln_cwl.winners # {}, ~city_history'.overwritten
  PROVE  sln_cwl'.winners = sln_cwl.winners
<1>1. sln_cwl \in City!Lotteries
  BY DEF CityInv, City!TypeOK
<1>2. ASSUME NEW h \in city_held, City!Writes(h)
      PROVE  sln_cwl'.winners = sln_cwl.winners
  <2>1. h.copy \in City!Lotteries /\ city_history \in CityHistories
    BY DEF CityInv, City!TypeOK, City!Held, CityHistories
  <2>2. ASSUME NEW op, NEW new, City!Puts(h, op, new)
        PROVE  sln_cwl.winners = h.copy.winners
    BY <2>1, <2>2 DEF City!Puts, CityHistories
  <2>3. CASE City!edit_city_wide_lottery_info(h) \/ City!close_city_wide_lottery_info(h)
    <3>1. sln_cwl.winners = h.copy.winners
      BY <2>2, <2>3
      DEF City!edit_city_wide_lottery_info, City!close_city_wide_lottery_info
    <3> QED
      BY <2>1, <2>3, <3>1
      DEF City!edit_city_wide_lottery_info, City!close_city_wide_lottery_info, City!Puts,
          City!Lotteries
  <2>4. CASE City!_pick_city_wide_lottery_winner(h)
    <3>1. h.op = "pick" /\ sln_cwl.winners = h.copy.winners
      <4>1. PICK new : City!Puts(h, "pick", new)
        BY <2>4 DEF City!_pick_city_wide_lottery_winner
      <4> QED
        BY <2>2, <4>1 DEF City!Puts
    <3> QED
      BY <3>1 DEF CityInv, HeldUndrawn
  <2> QED
    BY <1>2, <2>3, <2>4 DEF City!Writes
<1>3. CASE City!_worker_city_wide_lottery
  BY <1>1, <1>3 DEF City!_worker_city_wide_lottery, City!Lotteries
<1>4. CASE City!add_city_wide_lottery_info
  BY <1>1, <1>4 DEF City!add_city_wide_lottery_info, City!Lotteries
<1>5. \/ UNCHANGED sln_cwl
      \/ City!_worker_city_wide_lottery \/ City!add_city_wide_lottery_info
      \/ \E h \in city_held : City!Writes(h)
  BY DEF City!Next, City!vars, City!add_loyalty_for_user, City!delete_visit,
         City!add_city_wide_lottery_visit, City!delete_city_wide_lottery_visit,
         City!LosesModule, City!edit_get, City!close_get,
         City!_schedule_loot_city_wide_lottery, City!_pick_returns, City!_pick_get,
         City!_redeem_city_wide_lottery_visits
<1> QED
  BY <1>2, <1>3, <1>4, <1>5

-----------------------------------------------------------------------------
LEMMA CityInitInv ==
  ASSUME City!CityWideLotteryAssumption, City!Init
  PROVE  CityInv
<1>1. City!TypeOK /\ HeldUndrawn
  BY CityInitType DEF City!Init, HeldUndrawn
<1>2. City!CountedVisitsExist
  BY <1>1, CityOpenVisits DEF City!Init, City!CountedVisitsExist
<1> QED
  BY <1>1, <1>2 DEF CityInv

LEMMA CityNextInv ==
  ASSUME CityInv, [City!Next]_City!vars
  PROVE  CityInv'
<1>1. City!CityWideLotteryAssumption /\ City!CityWideLotteryAssumption'
  BY DEF CityInv, City!CityWideLotteryAssumption
<1>2. City!TypeOK' /\ HeldUndrawn'
  BY CityNextType, CityNextUndrawn DEF CityInv
<1> QED
  BY <1>1, <1>2, CityNextCounted DEF CityInv

(* Every variable of the lottery of a city keeps its type.                 *)
THEOREM CityTypeCorrect == City!Spec => []City!TypeOK
<1>1. City!Init => CityInv
  BY CityInitInv, CityConstants
<1>2. CityInv /\ [City!Next]_City!vars => CityInv'
  BY CityNextInv
<1>3. CityInv => City!TypeOK
  BY DEF CityInv
<1> QED
  BY <1>1, <1>2, <1>3, PTL DEF City!Spec

(* Whoever can be drawn in a city has an open visit to one of its shops,   *)
(* though the tasks that add and delete visits are late, overtake each     *)
(* other and run twice: no draw fails for ever.                            *)
THEOREM CityDrawsFindAVisit == City!Spec => []City!CountedVisitsExist
<1>1. City!Init => CityInv
  BY CityInitInv, CityConstants
<1>2. CityInv /\ [City!Next]_City!vars => CityInv'
  BY CityNextInv
<1>3. CityInv => City!CountedVisitsExist
  BY DEF CityInv
<1> QED
  BY <1>1, <1>2, <1>3, PTL DEF City!Spec

(* Who was drawn in a city stays a winner, though draws run more than once *)
(* for one lottery, unless a copy is put that was read before.             *)
THEOREM CityWinnersStay == City!Spec => City!WinnersStay
<1>1. City!Init => CityInv
  BY CityInitInv, CityConstants
<1>2. CityInv /\ [City!Next]_City!vars => CityInv'
  BY CityNextInv
<1>3. CityInv /\ [City!Next]_City!vars =>
        [sln_cwl.winners # {} /\ ~city_history'.overwritten
           => sln_cwl'.winners = sln_cwl.winners]_City!vars
  BY CityWinners
<1> QED
  BY <1>1, <1>2, <1>3, PTL DEF City!Spec, City!WinnersStay

-----------------------------------------------------------------------------
(* What MCLoyalty composes: a step of it is one of each of the two, or     *)
(* leaves it as it is.                                                     *)
LEMMA EachOfTheTwo == LoyaltySpec => Spec /\ City!Spec
<1>1. LoyaltyInit => Init /\ City!Init
  BY DEF LoyaltyInit
<1>2. [LoyaltyNext]_<<component, vars, city_vars>> => [Next]_vars /\ [City!Next]_City!vars
  <2>1. UNCHANGED city_vars <=> UNCHANGED City!vars
    BY DEF city_vars, City!vars
  <2>2. LoyaltyNext => [Next]_vars /\ [City!Next]_City!vars
    BY <2>1 DEF LoyaltyNext
  <2>3. UNCHANGED <<component, vars, city_vars>> => UNCHANGED vars /\ UNCHANGED City!vars
    BY <2>1
  <2> QED
    BY <2>2, <2>3
<1> QED
  BY <1>1, <1>2, PTL DEF LoyaltySpec, Spec, City!Spec

(* The lottery of a shop and that of a city keep their types, whoever runs *)
(* a task again, deletes a visit or puts back an old copy.                 *)
THEOREM LotteriesKeepTheirTypes == LoyaltySpec => []TypesOK
<1>1. TypeOK /\ City!TypeOK => TypesOK
  BY DEF TypesOK
<1> QED
  BY <1>1, EachOfTheTwo, TypeCorrect, CityTypeCorrect, PTL

(* Where a shop has its lottery next to that of the city, whoever can be   *)
(* drawn in the city has a visit that the draw finds.                      *)
THEOREM DrawsOfACityFindAVisit == LoyaltySpec => []CityVisitsExist
  BY EachOfTheTwo, CityDrawsFindAVisit, PTL DEF CityVisitsExist

(* Nor does the city take the prize from whom it drew.                     *)
THEOREM WinnersStayDrawn == LoyaltySpec => WinnersStay
  BY EachOfTheTwo, CityWinnersStay, PTL DEF WinnersStay
=============================================================================
