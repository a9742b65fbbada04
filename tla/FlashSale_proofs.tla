-------------------------- MODULE FlashSale_proofs --------------------------
(***************************************************************************)
(* The status of every flash sale follows the clock, for any sales, runs   *)
(* of the job, reservations and horizon: IInv is inductive.                *)
(***************************************************************************)
EXTENDS FlashSale, SumTheorems

LEMMA WithStatus ==
  \A x \in SaleRow, st \in SaleStatus : [x EXCEPT !.status = st] \in SaleRow
BY DEF SaleRow

LEMMA InitInv == Init => IInv
<1> SUFFICES ASSUME Init PROVE IInv
  OBVIOUS
<1> USE DEF Init, NoSale
<1>1. TypeOK
  BY HorizonType DEF TypeOK, Time, SaleRow, SaleStatus
<1>2. ReadingsOK /\ FormsOK /\ StatusFollowsClock
  BY DEF ReadingsOK, FormsOK, StatusFollowsClock
<1> QED
  BY <1>1, <1>2 DEF IInv

-----------------------------------------------------------------------------
(* One lemma per action. *)

\* The clock only grows, so what lay in the past still does.
LEMMA TickInv ==
  ASSUME IInv, Tick PROVE IInv'
<1> USE HorizonType DEF IInv, Tick
<1>1. now \in Nat /\ now' = now + 1
  BY DEF TypeOK, Time
<1>2. TypeOK'
  BY DEF TypeOK, Time
<1>3. ReadingsOK'
  BY <1>1 DEF TypeOK, SaleRow, Time, ReadingsOK
<1>4. FormsOK'
  BY DEF FormsOK
<1>5. StatusFollowsClock'
  BY <1>1 DEF TypeOK, SaleRow, Time, StatusFollowsClock
<1> QED
  BY <1>2, <1>3, <1>4, <1>5

LEMMA CheckWindowInv ==
  ASSUME IInv, NEW s \in Sales, NEW start \in Time, NEW end \in Time,
         CheckWindow(s, start, end)
  PROVE  IInv'
<1> USE HorizonType DEF IInv, CheckWindow
<1>1. TypeOK'
  BY DEF TypeOK, SaleRow, SaleStatus
<1>2. ReadingsOK'
  BY DEF TypeOK, ReadingsOK
<1>3. FormsOK'
  BY DEF TypeOK, FormsOK
<1>4. StatusFollowsClock'
  BY DEF StatusFollowsClock
<1> QED
  BY <1>1, <1>2, <1>3, <1>4

\* The status was computed from an older clock, and is one the clock still allows.
LEMMA StoreSaleInv ==
  ASSUME IInv, NEW s \in Sales, StoreSale(s) PROVE IInv'
<1> USE HorizonType DEF IInv, StoreSale
<1>1. TypeOK'
  BY DEF TypeOK, NoSale, SaleRow, SaleStatus, Time
<1>2. ReadingsOK'
  BY DEF TypeOK, ReadingsOK, NoSale
<1>3. FormsOK'
  BY DEF TypeOK, FormsOK, NoSale
<1>4. StatusFollowsClock'
  BY DEF TypeOK, ReadingsOK, FormsOK, StatusFollowsClock
<1> QED
  BY <1>1, <1>2, <1>3, <1>4

LEMMA StartCronInv ==
  ASSUME IInv, NEW c \in CronRuns, StartCron(c) PROVE IInv'
<1> USE HorizonType DEF IInv, StartCron
<1>1. TypeOK'
  BY DEF TypeOK
<1>2. ReadingsOK'
  BY DEF TypeOK, ReadingsOK, Time
<1>3. FormsOK' /\ StatusFollowsClock'
  BY DEF FormsOK, StatusFollowsClock
<1> QED
  BY <1>1, <1>2, <1>3

\* A sale that starts by the job's clock has started by the real one.
LEMMA StartSalesInv ==
  ASSUME IInv, NEW c \in CronRuns, StartSales(c) PROVE IInv'
<1> USE HorizonType DEF IInv, StartSales
<1>1. TypeOK'
  <2>1. sale' \in [Sales -> SaleRow]
    <3>1. ASSUME NEW s \in Sales PROVE sale'[s] \in SaleRow
      BY WithStatus DEF TypeOK, SaleStatus
    <3> QED
      BY <3>1
  <2>2. cron' \in [CronRuns -> [at: {"idle", "start", "end"}, read: Time]]
    BY DEF TypeOK
  <2> QED
    BY <2>1, <2>2 DEF TypeOK
<1>2. ReadingsOK'
  BY DEF TypeOK, ReadingsOK
<1>3. FormsOK'
  BY DEF TypeOK, FormsOK, Starts, NoSale
<1>4. ASSUME NEW s \in Sales
      PROVE  /\ sale'[s].status = "ACTIVE" => sale'[s].start <= now
             /\ sale'[s].status = "ENDED" => sale'[s].end <= now
  <2>1. cron[c].read \in Nat /\ now \in Nat /\ cron[c].read <= now
    BY DEF TypeOK, Time, ReadingsOK
  <2>2. CASE Starts(s, cron[c].read)
    BY <2>1, <2>2 DEF TypeOK, SaleRow, Time, Starts
  <2>3. CASE ~Starts(s, cron[c].read)
    BY <2>3 DEF StatusFollowsClock
  <2> QED
    BY <2>2, <2>3
<1>5. StatusFollowsClock'
  BY <1>4 DEF StatusFollowsClock
<1> QED
  BY <1>1, <1>2, <1>3, <1>5

LEMMA EndSalesInv ==
  ASSUME IInv, NEW c \in CronRuns, EndSales(c) PROVE IInv'
<1> USE HorizonType DEF IInv, EndSales
<1>1. TypeOK'
  <2>1. sale' \in [Sales -> SaleRow]
    <3>1. ASSUME NEW s \in Sales PROVE sale'[s] \in SaleRow
      BY WithStatus DEF TypeOK, SaleStatus
    <3> QED
      BY <3>1
  <2>2. cron' \in [CronRuns -> [at: {"idle", "start", "end"}, read: Time]]
    BY DEF TypeOK, Time
  <2> QED
    BY <2>1, <2>2 DEF TypeOK
<1>2. ReadingsOK'
  BY DEF TypeOK, ReadingsOK, Time
<1>3. FormsOK'
  BY DEF TypeOK, FormsOK, Ends, NoSale
<1>4. ASSUME NEW s \in Sales
      PROVE  /\ sale'[s].status = "ACTIVE" => sale'[s].start <= now
             /\ sale'[s].status = "ENDED" => sale'[s].end <= now
  <2>1. cron[c].read \in Nat /\ now \in Nat /\ cron[c].read <= now
    BY DEF TypeOK, Time, ReadingsOK
  <2>2. CASE Ends(s, cron[c].read)
    BY <2>1, <2>2 DEF TypeOK, SaleRow, Time, Ends
  <2>3. CASE ~Ends(s, cron[c].read)
    BY <2>3 DEF StatusFollowsClock
  <2> QED
    BY <2>2, <2>3
<1>5. StatusFollowsClock'
  BY <1>4 DEF StatusFollowsClock
<1> QED
  BY <1>1, <1>2, <1>3, <1>5

LEMMA ReservationInv ==
  ASSUME IInv, NEW r \in Reservations, Check(r) \/ Reserve(r) PROVE IInv'
<1> USE HorizonType DEF IInv
<1>1. CASE Check(r)
  BY <1>1 DEF Check, TypeOK, ReadingsOK, FormsOK, StatusFollowsClock
<1>2. CASE Reserve(r)
  <2>1. TypeOK'
    BY <1>2, QuantitiesType DEF Reserve, TypeOK, Incremented
  <2> QED
    BY <1>2, <2>1 DEF Reserve, ReadingsOK, FormsOK, StatusFollowsClock
<1> QED
  BY <1>1, <1>2

LEMMA NextInv == IInv /\ [Next]_vars => IInv'
<1> SUFFICES ASSUME IInv, [Next]_vars PROVE IInv'
  OBVIOUS
<1>1. CASE Tick
  BY <1>1, TickInv
<1>2. ASSUME NEW s \in Sales, NEW start \in Time, NEW end \in Time, CheckWindow(s, start, end)
      PROVE  IInv'
  BY <1>2, CheckWindowInv
<1>3. ASSUME NEW s \in Sales, StoreSale(s) PROVE IInv'
  BY <1>3, StoreSaleInv
<1>4. ASSUME NEW c \in CronRuns, StartCron(c) \/ StartSales(c) \/ EndSales(c) PROVE IInv'
  BY <1>4, StartCronInv, StartSalesInv, EndSalesInv
<1>5. ASSUME NEW r \in Reservations, Check(r) \/ Reserve(r) PROVE IInv'
  BY <1>5, ReservationInv
<1>6. CASE UNCHANGED vars
  BY <1>6 DEF vars, IInv, TypeOK, ReadingsOK, FormsOK, StatusFollowsClock
<1> QED
  BY <1>1, <1>2, <1>3, <1>4, <1>5, <1>6 DEF Next

LEMMA Invariance == Spec => []IInv
  BY InitInv, NextInv, PTL DEF Spec

-----------------------------------------------------------------------------
\* Type correctness.
THEOREM TypeCorrect == Spec => []TypeOK
<1>1. IInv => TypeOK
  BY DEF IInv
<1> QED
  BY <1>1, Invariance, PTL

\* However late a statement of the job or of create lands, a sale is ACTIVE only once it
\* has started, and ENDED only once it is over (flash-sale.service.ts:24-53, 69-77).
THEOREM StatusIsTruthful == Spec => []StatusFollowsClock
<1>1. IInv => StatusFollowsClock
  BY DEF IInv
<1> QED
  BY <1>1, Invariance, PTL

\* No step of any run of the job, nor a sale stored late, opens a sale again that was
\* ended (flash-sale.service.ts:29-37).
THEOREM NeverReopened == Spec => SalesNeverReopen
<1>1. IInv /\ [Next]_vars =>
        [\A s \in Sales : sale[s].status = "ENDED" => sale'[s].status = "ENDED"]_vars
  <2> SUFFICES ASSUME IInv, Next, NEW s \in Sales, sale[s].status = "ENDED"
               PROVE  sale'[s].status = "ENDED"
    BY DEF vars
  <2>1. form[s] = NoSale
    BY DEF IInv, FormsOK, NoSale
  <2>2. CASE UNCHANGED sale
    BY <2>2
  <2>3. ASSUME NEW t \in Sales, StoreSale(t) PROVE sale'[s].status = "ENDED"
    BY <2>1, <2>3 DEF StoreSale, IInv, TypeOK
  <2>4. ASSUME NEW c \in CronRuns, StartSales(c) \/ EndSales(c)
        PROVE  sale'[s].status = "ENDED"
    BY <2>4 DEF StartSales, EndSales, Starts, Ends, IInv, TypeOK
  <2> QED
    BY <2>2, <2>3, <2>4 DEF Next, Tick, CheckWindow, StartCron, Check, Reserve
<1> QED
  BY <1>1, Invariance, PTL DEF Spec, SalesNeverReopen

-----------------------------------------------------------------------------
(* The counter of what was reserved.                                       *)

LEMMA GrantCounted ==
  ASSUME TypeOK, GrantsOK, ReservedIsWhatWasGranted, NEW r \in Reservations, Reserve(r)
  PROVE  GrantsOK' /\ ReservedIsWhatWasGranted'
<1> DEFINE qty == [q \in Reservations |-> wants[q].qty]
           G(s) == {q \in Reservations : pc'[q] = "reserved" /\ wants[q].sale = s}
           t == wants[r].sale
<1>1. /\ \A q \in Reservations : qty[q] \in Nat
      /\ t \in Sales /\ qty[r] = wants[r].qty
  BY QuantitiesType DEF TypeOK
<1>2. /\ pc[r] = "update" /\ pc' = [pc EXCEPT ![r] = "reserved"] /\ wants' = wants
      /\ row' = [row EXCEPT ![t].reserved = row[t].reserved + wants[r].qty]
  BY DEF Reserve, Incremented
<1>3. \A s \in Sales \ {t} : G(s) = Granted(s) /\ row'[s].reserved = row[s].reserved
  BY <1>2 DEF TypeOK, Granted
<1>4. G(t) = Granted(t) \cup {r} /\ r \notin Granted(t)
  BY <1>2 DEF TypeOK, Granted
<1>5. row'[t].reserved = row[t].reserved + qty[r]
  BY <1>1, <1>2 DEF TypeOK
<1> HIDE DEF qty, G, t
<1>6. IsFiniteSet(Granted(t)) /\ row[t].reserved = SumFunctionOnSet(qty, Granted(t))
  BY <1>1 DEF GrantsOK, ReservedIsWhatWasGranted, qty
<1>7. IsFiniteSet(G(t)) /\ G(t) \subseteq Reservations
  BY <1>4, <1>6, FS_AddElement DEF Granted
<1>8. SumFunctionOnSet(qty, G(t)) = qty[r] + SumFunctionOnSet(qty, Granted(t))
  <2>1. r \in G(t) /\ G(t) \ {r} = Granted(t)
    BY <1>4
  <2>2. \A q \in G(t) : qty[q] \in Int
    BY <1>1, <1>7
  <2>3. SumFunctionOnSet(qty, G(t)) = qty[r] + SumFunctionOnSet(qty, G(t) \ {r})
    BY <1>7, <2>1, <2>2, SumSplit
  <2> QED
    BY <2>1, <2>3
<1>9. row[t].reserved \in Nat /\ qty[r] \in Nat
  BY <1>1 DEF TypeOK
<1>10. row'[t].reserved = SumFunctionOnSet(qty, G(t))
  BY <1>5, <1>6, <1>8, <1>9
<1>11. \A s \in Sales : IsFiniteSet(G(s)) /\ row'[s].reserved = SumFunctionOnSet(qty, G(s))
  BY <1>3, <1>7, <1>10 DEF GrantsOK, ReservedIsWhatWasGranted, qty
<1> QED
  BY <1>2, <1>11 DEF GrantsOK, ReservedIsWhatWasGranted, Granted, qty, G

\* reserved is the sum of what was granted, however stale the reads behind the grants were
\* (reserveStock, flash-sale.service.ts:251).
THEOREM EveryGrantCounts == Spec => []ReservedIsWhatWasGranted
<1>1. Init => GrantsOK /\ ReservedIsWhatWasGranted
  <2> SUFFICES ASSUME Init PROVE GrantsOK /\ ReservedIsWhatWasGranted
    OBVIOUS
  <2>1. \A s \in Sales : Granted(s) = {} /\ row[s].reserved = 0
    BY DEF Init, Granted
  <2> QED
    BY <2>1, FS_EmptySet, SumOfNone DEF GrantsOK, ReservedIsWhatWasGranted
<1>2. ASSUME TypeOK, GrantsOK, ReservedIsWhatWasGranted, [Next]_vars
      PROVE  GrantsOK' /\ ReservedIsWhatWasGranted'
  <2>1. ASSUME NEW r \in Reservations, Check(r)
        PROVE  GrantsOK' /\ ReservedIsWhatWasGranted'
    <3>1. /\ \A s \in Sales : {q \in Reservations : pc'[q] = "reserved" /\ wants[q].sale = s} = Granted(s)
          /\ wants' = wants /\ row' = row
      BY <1>2, <2>1 DEF Check, TypeOK, Granted
    <3> QED
      BY <1>2, <3>1 DEF GrantsOK, ReservedIsWhatWasGranted, Granted
  <2>2. CASE UNCHANGED <<row, pc, wants>>
    BY <1>2, <2>2 DEF GrantsOK, ReservedIsWhatWasGranted, Granted
  <2>3. ASSUME NEW r \in Reservations, Reserve(r)
        PROVE  GrantsOK' /\ ReservedIsWhatWasGranted'
    BY <1>2, <2>3, GrantCounted
  <2> QED
    BY <1>2, <2>1, <2>2, <2>3
       DEF Next, vars, Tick, CheckWindow, StoreSale, StartCron, StartSales, EndSales
<1> QED
  BY <1>1, <1>2, TypeCorrect, PTL DEF Spec
=============================================================================
