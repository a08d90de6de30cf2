---------------------------- MODULE SessionProofs ----------------------------
(***************************************************************************)
(* What holds of the session of mini_prop_os, its supervisor, its          *)
(* heartbeat monitor and the set-up they share, for every number of bars   *)
(* and losses (core/connection.py, app.py).                                *)
(***************************************************************************)
EXTENDS Session, TLAPS

\* The session starts with its types.
LEMMA InitType == Init => TypeOK
  <1> SUFFICES ASSUME Init PROVE TypeOK
    OBVIOUS
  <1>1. {signal, heart, baseline, trading, killed} \subseteq BOOLEAN
    BY Zenon DEF Init, Fresh
  <1>2. clock \in 0..MaxBar /\ lastBar \in 0..clock /\ ingested \subseteq 1..clock /\ losses \in 0..MaxLosses
    BY SessionAssumption DEF Init, Fresh
  <1> QED
    BY <1>1, <1>2 DEF Init, Fresh, TypeOK

\* Every step keeps the types.  The holder of the set-up lock is the one who is
\* between its steps (app.py, _on_connected).
LEMMA TypeStep == TypeOK /\ [Next]_vars => TypeOK'
  <1> SUFFICES ASSUME TypeOK, [Next]_vars PROVE TypeOK'
    OBVIOUS
  <1> USE SessionAssumption DEF TypeOK, setupVars, barVars
  <1>1. CASE Dial /\ UNCHANGED killed
    BY <1>1 DEF Dial
  <1>2. CASE SyncFails /\ UNCHANGED killed
    BY <1>2 DEF SyncFails, LoseLink, Lists
  <1>3. CASE Synced /\ UNCHANGED killed
    BY <1>3 DEF Synced
  <1>4. CASE Resume /\ UNCHANGED killed
    BY <1>4 DEF Resume
  <1>5. CASE Lost /\ UNCHANGED killed
    BY <1>5 DEF Lost
  <1>6. ASSUME NEW p \in {"supervisor", "monitor"}, Enter(p), UNCHANGED killed
        PROVE  TypeOK'
    <2>1. CASE Return(p)
      BY <1>6, <2>1 DEF Enter, Begin, Return
    <2>2. CASE holder' = p /\ step' = "qualify" /\ UNCHANGED <<supervisor, monitor>>
      BY <1>6, <2>2 DEF Enter, Begin, Steps
    <2> QED
      BY <1>6, <2>1, <2>2 DEF Enter, Begin
  <1>7. CASE (Qualified \/ EquityRead \/ PositionsRead \/ OrdersRead) /\ UNCHANGED killed
    BY <1>7 DEF Qualified, EquityRead, PositionsRead, OrdersRead, Answered, Steps
  <1>8. CASE Subscribed /\ UNCHANGED killed
    <2>1. lastBar' \in 0..clock' /\ ingested' \subseteq 1..clock'
      <3>1. clock \in Nat /\ lastBar \in Nat /\ lastBar <= clock
        OBVIOUS
      <3>2. (lastBar + 1 .. clock) \subseteq 1..clock
        BY <3>1
      <3>3. Primed(lastBar + 1 .. clock) \subseteq 1..clock
        BY <3>2 DEF Primed
      <3>4. /\ clock' = clock /\ lastBar' = clock
            /\ ingested' = ingested \cup Primed(lastBar + 1 .. clock)
        BY <1>8 DEF Subscribed
      <3>5. ingested \subseteq 1..clock
        OBVIOUS
      <3>6. lastBar' \in 0..clock'
        BY <3>1, <3>4
      <3>7. ingested' \subseteq 1..clock'
        BY <3>3, <3>4, <3>5
      <3> QED
        BY <3>6, <3>7
    <2>2. bars' \in Lists
      BY <1>8 DEF Subscribed, Lists
    <2>3. /\ holder' = "none" /\ step' = "idle"
          /\ supervisor' \in {"connecting", "connected", "setup", "watching"}
          /\ monitor' \in {"unborn", "asleep", "queued", "gone"}
      BY <1>8 DEF Subscribed, Return
    <2> QED
      BY <1>8, <2>1, <2>2, <2>3 DEF Subscribed
  <1>15. CASE SubscribedToNothing /\ UNCHANGED killed
    BY <1>15 DEF SubscribedToNothing, Return, Lists
  <1>9. CASE SetupFails /\ UNCHANGED killed
    BY <1>9 DEF SetupFails, Return
  <1>10. CASE MonitorRetries /\ UNCHANGED killed
    BY <1>10 DEF MonitorRetries
  <1>11. CASE BarCompletes /\ UNCHANGED killed
    <2>1. clock' \in 0..MaxBar /\ clock' = clock + 1 /\ clock \in Nat
      BY <1>11 DEF BarCompletes
    <2>2. 0..clock \subseteq 0..clock' /\ 1..clock \subseteq 1..clock' /\ clock' \in 1..clock'
      BY <2>1
    <2>3. lastBar' \in {lastBar, clock'} /\ ingested' \subseteq ingested \cup {clock'}
      BY <1>11 DEF BarCompletes
    <2>4. lastBar' \in 0..clock' /\ ingested' \subseteq 1..clock'
      BY <2>1, <2>2, <2>3
    <2> QED
      BY <1>11, <2>1, <2>4 DEF BarCompletes
  <1>12. CASE (Drop \/ Stall) /\ UNCHANGED killed
    <2>1. CASE Drop
      <3>1. {signal, heart, baseline, trading, killed}' \subseteq BOOLEAN
        BY <1>12, <2>1, Zenon DEF Drop, LoseLink
      <3> QED
        BY <1>12, <2>1, <3>1 DEF Drop, LoseLink, Lists
    <2>2. CASE Stall
      BY <1>12, <2>2 DEF Stall
    <2> QED
      BY <1>12, <2>1, <2>2
  <1>13. CASE (HeartNotices \/ HeartForces) /\ UNCHANGED killed
    BY <1>13 DEF HeartNotices, HeartForces, LoseLink, Lists
  <1>14. CASE UNCHANGED vars
    BY <1>14 DEF vars, sessionVars
  <1> QED
    BY <1>1, <1>2, <1>3, <1>4, <1>5, <1>6, <1>7, <1>8, <1>9, <1>10, <1>11, <1>12, <1>13,
       <1>14, <1>15 DEF Next, Supervise, SetUp

(***************************************************************************)
(* The session keeps its types, however drops, stalls, set-ups and         *)
(* reconnects interleave.                                                  *)
(***************************************************************************)
THEOREM SessionTypeCorrect == Spec => []TypeOK
  BY InitType, TypeStep, PTL DEF Spec

----------------------------------------------------------------------------

\* A subscription is as alive as the socket, and trading never outlasts its
\* list.  A dead list is forgotten before the next connect begins, unless its
\* connection was lost in a connect.
BarsFollowLink ==
    /\ bars \in {"live", "silent"} => link # "down"
    /\ bars = "dead" => link = "down" /\ supervisor # "connecting"
    /\ trading => bars # "none"

\* A socket that is down or synchronises belongs to a supervisor that connects,
\* or is about to be noticed, no set-up waits for an answer it cannot give, and
\* the supervisor waits for its own.
ConnectsFromScratch ==
    /\ supervisor = "connecting" => link \in {"down", "syncing"}
    /\ link = "down" => step \in {"idle", "broken"}
    /\ link = "syncing" => supervisor = "connecting"
    /\ holder = "supervisor" => supervisor = "setup"

LiveInv == TypeOK /\ BarsFollowLink /\ ConnectsFromScratch

\* Every step keeps the subscription as alive as the socket.
LEMMA LiveStep == LiveInv /\ [Next]_vars => LiveInv'
  <1> SUFFICES ASSUME LiveInv, [Next]_vars PROVE BarsFollowLink' /\ ConnectsFromScratch'
    BY TypeStep DEF LiveInv
  <1> USE DEF LiveInv, BarsFollowLink, ConnectsFromScratch, setupVars, barVars
  <1>0. /\ (holder = "none") <=> (step = "idle")
        /\ bars \in Lists \cup {"none"}
        /\ holder \in {"none", "supervisor", "monitor"}
    BY DEF TypeOK
  <1>1. CASE Dial
    BY <1>0, <1>1 DEF Dial, Runnable, TypeOK
  <1>2. CASE SyncFails
    BY <1>0, <1>2 DEF SyncFails, LoseLink, Lists
  <1>3. CASE Synced
    BY <1>3 DEF Synced
  <1>4. CASE Resume
    BY <1>4 DEF Resume
  <1>5. CASE Lost
    BY <1>0, <1>5 DEF Lost
  <1>6. ASSUME NEW p \in {"supervisor", "monitor"}, Enter(p)
        PROVE  BarsFollowLink' /\ ConnectsFromScratch'
    BY <1>6 DEF Enter, Begin, Return, Waiting, IsConnected
  <1>7. CASE Qualified \/ EquityRead \/ PositionsRead \/ OrdersRead
    BY <1>0, <1>7 DEF Qualified, EquityRead, PositionsRead, OrdersRead, Answered, Answering
  <1>8. CASE Subscribed
    <2>1. bars' = "live" /\ link' = link /\ link # "down"
      BY <1>8 DEF Subscribed, Answering
    <2>2. link = "syncing" => supervisor' = "connecting"
      BY <1>0, <1>8 DEF Subscribed, Return
    <2>3. supervisor' = "connecting" => supervisor = "connecting"
      BY <1>8 DEF Subscribed, Return
    <2>4. holder' = "none"
      BY <1>8 DEF Subscribed, Return
    <2> QED
      BY <2>1, <2>2, <2>3, <2>4
  <1>9. CASE SetupFails
    BY <1>0, <1>9 DEF SetupFails, Return
  <1>10. CASE MonitorRetries
    BY <1>10 DEF MonitorRetries
  <1>11. CASE BarCompletes
    BY <1>11 DEF BarCompletes
  <1>12. CASE Drop \/ Stall
    BY <1>0, <1>12 DEF Drop, Stall, LoseLink, TypeOK
  <1>13. CASE HeartNotices \/ HeartForces
    BY <1>0, <1>13 DEF HeartNotices, HeartForces, LoseLink, TypeOK
  <1>14. CASE UNCHANGED vars
    BY <1>14 DEF vars, sessionVars
  <1>15. CASE SubscribedToNothing
    BY <1>0, <1>15 DEF SubscribedToNothing, Return
  <1> QED
    BY <1>1, <1>2, <1>3, <1>4, <1>5, <1>6, <1>7, <1>8, <1>9, <1>10, <1>11, <1>12, <1>13,
       <1>14, <1>15 DEF Next, Supervise, SetUp

(***************************************************************************)
(* A session that trades has the subscription of its own connection, or    *)
(* knows that its link is down, or has lost it in a connect whose monitor  *)
(* had already set it up (core/connection.py, _connect_with_backoff;       *)
(* app.py, _equity_monitor and _on_connected).                             *)
(***************************************************************************)
THEOREM TradesOnLiveBars == Spec => []TradingOnLiveBars
  <1>1. Init => LiveInv
    BY InitType DEF Init, Fresh, LiveInv, BarsFollowLink, ConnectsFromScratch
  <1>2. LiveInv /\ [Next]_vars => LiveInv'
    BY LiveStep
  <1>3. LiveInv => TradingOnLiveBars
    BY DEF LiveInv, BarsFollowLink, TradingOnLiveBars, TypeOK, Lists
  <1> QED
    BY <1>1, <1>2, <1>3, PTL DEF Spec
=============================================================================
