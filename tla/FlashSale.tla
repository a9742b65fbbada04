------------------------------ MODULE FlashSale ------------------------------
(***************************************************************************)
(* Flash sales: their status, which a cron job moves with the clock, and   *)
(* the reservations of their limited stock.                                *)
(*                                                                         *)
(* A sale carries one product row here: rows of a sale share only its      *)
(* status and its end date.  releaseStock and confirmPurchase have no      *)
(* callers in the repository and are not actions.                          *)
(***************************************************************************)
EXTENDS Integers, FiniteSets, Functions

CONSTANTS
  Sales,         \* sales an admin may create
  Limit,         \* units a sale offers: flash_sale_products.qty
  CronRuns,      \* runs of the cron job; a slow run overlaps the next one
  Reservations,  \* requests POST flash-sales/reserve
  Quantities,    \* units a reservation may ask for
  Horizon        \* the clock stops here, after every sale's end

ASSUME LimitType == Limit \in Nat \ {0}
ASSUME QuantitiesType == Quantities \subseteq Nat \ {0}
ASSUME HorizonType == Horizon \in Nat

VARIABLES
  now,     \* the clock
  sale,    \* flash_sales row of a sale
  form,    \* window and status of a sale that create has checked but not stored
  row,     \* flash_sale_products row of a sale
  cron,    \* where a cron run is, and the time it read when it started
  pc,      \* where a reservation is
  wants    \* sale and quantity a reservation asks for

vars == <<now, sale, form, row, cron, pc, wants>>

Time == 0 .. Horizon
SaleStatus == {"ABSENT", "SCHEDULED", "ACTIVE", "ENDED"}
SaleRow == [status: SaleStatus, start: Time, end: Time]
NoSale == [status |-> "ABSENT", start |-> 0, end |-> 0]

TypeOK ==
  /\ now \in Time
  /\ sale \in [Sales -> SaleRow]
  /\ form \in [Sales -> SaleRow]
  /\ row \in [Sales -> [sold: Nat, reserved: Nat]]
  /\ cron \in [CronRuns -> [at: {"idle", "start", "end"}, read: Time]]
  /\ pc \in [Reservations -> {"idle", "update", "reserved", "refused"}]
  /\ wants \in [Reservations -> [sale: Sales, qty: Quantities]]

Init ==
  /\ now = 0
  /\ sale = [s \in Sales |-> NoSale]
  /\ form = [s \in Sales |-> NoSale]
  /\ row = [s \in Sales |-> [sold |-> 0, reserved |-> 0]]
  /\ cron = [c \in CronRuns |-> [at |-> "idle", read |-> 0]]
  /\ pc = [r \in Reservations |-> "idle"]
  /\ wants \in [Reservations -> [sale: Sales, qty: Quantities]]

Tick ==
  /\ now < Horizon
  /\ now' = now + 1
  /\ UNCHANGED <<sale, form, row, cron, pc, wants>>

-----------------------------------------------------------------------------
(* create: checks the window against the clock, reads the products, and    *)
(* stores the sale with the status it computed before those reads.         *)

CheckWindow(s, start, end) ==
  /\ sale[s] = NoSale /\ form[s] = NoSale
  /\ start < end /\ end > now
  /\ form' = [form EXCEPT ![s] =
       [status |-> IF start <= now THEN "ACTIVE" ELSE "SCHEDULED", start |-> start, end |-> end]]
  /\ UNCHANGED <<now, sale, row, cron, pc, wants>>

StoreSale(s) ==
  /\ form[s] # NoSale
  /\ sale' = [sale EXCEPT ![s] = form[s]]
  /\ form' = [form EXCEPT ![s] = NoSale]
  /\ UNCHANGED <<now, row, cron, pc, wants>>

-----------------------------------------------------------------------------
(* updateFlashSaleStatuses: two UPDATE statements that compare each sale   *)
(* with the time the run read when it started.                             *)

StartCron(c) ==
  /\ cron[c].at = "idle"
  /\ cron' = [cron EXCEPT ![c] = [at |-> "start", read |-> now]]
  /\ UNCHANGED <<now, sale, form, row, pc, wants>>

StartsWhateverStatus(s, time) ==
  sale[s] # NoSale /\ sale[s].start <= time /\ time < sale[s].end
Starts(s, time) == sale[s].status = "SCHEDULED" /\ sale[s].start <= time /\ time < sale[s].end

StartSales(c) ==
  /\ cron[c].at = "start"
  /\ sale' = [s \in Sales |->
       IF Starts(s, cron[c].read) THEN [sale[s] EXCEPT !.status = "ACTIVE"] ELSE sale[s]]
  /\ cron' = [cron EXCEPT ![c].at = "end"]
  /\ UNCHANGED <<now, form, row, pc, wants>>

EndsAfterStart(s, time) == sale[s].status = "ACTIVE" /\ sale[s].start <= time
EndsOnTheMinute(s, time) == sale[s].status = "ACTIVE" /\ sale[s].end = time
Ends(s, time) == sale[s].status = "ACTIVE" /\ sale[s].end <= time

EndSales(c) ==
  /\ cron[c].at = "end"
  /\ sale' = [s \in Sales |->
       IF Ends(s, cron[c].read) THEN [sale[s] EXCEPT !.status = "ENDED"] ELSE sale[s]]
  /\ cron' = [cron EXCEPT ![c] = [at |-> "idle", read |-> 0]]
  /\ UNCHANGED <<now, form, row, pc, wants>>

-----------------------------------------------------------------------------
(* reserveStock: one read of the sale and the row, then an increment the   *)
(* database evaluates.  Nothing is visible between the increment and the   *)
(* commit that follows it, so they are one step.                           *)

Available(s) == Limit - row[s].sold - row[s].reserved
Open(s) == sale[s].status = "ACTIVE" /\ now <= sale[s].end
Grantable(r) == Open(wants[r].sale) /\ Available(wants[r].sale) >= wants[r].qty

Check(r) ==
  /\ pc[r] = "idle"
  /\ pc' = [pc EXCEPT ![r] = IF Grantable(r) THEN "update" ELSE "refused"]
  /\ UNCHANGED <<now, sale, form, row, cron, wants>>

Decremented(s, q) == row[s].reserved - q
ClampedAtLimit(s, q) == IF row[s].reserved + q > Limit THEN Limit ELSE row[s].reserved + q
Incremented(s, q) == row[s].reserved + q

Reserve(r) ==
  /\ pc[r] = "update"
  /\ row' = [row EXCEPT ![wants[r].sale].reserved = Incremented(wants[r].sale, wants[r].qty)]
  /\ pc' = [pc EXCEPT ![r] = "reserved"]
  /\ UNCHANGED <<now, sale, form, cron, wants>>

Next ==
  \/ Tick
  \/ \E s \in Sales : \E start, end \in Time : CheckWindow(s, start, end)
  \/ \E s \in Sales : StoreSale(s)
  \/ \E c \in CronRuns : StartCron(c) \/ StartSales(c) \/ EndSales(c)
  \/ \E r \in Reservations : Check(r) \/ Reserve(r)

Spec == Init /\ [][Next]_vars

\* Time passes, the scheduler keeps starting the job, and a run that started finishes.
FairSpec == Spec /\ WF_vars(Tick) /\ \A c \in CronRuns : 
              WF_vars(StartCron(c)) /\ WF_vars(StartSales(c)) /\ WF_vars(EndSales(c))

-----------------------------------------------------------------------------
Granted(s) == {r \in Reservations : pc[r] = "reserved" /\ wants[r].sale = s}

\* Concurrent reservations all count: reserved is the sum of what was granted, however
\* stale the reads behind the grants were (flash-sale.service.ts:251).
ReservedIsWhatWasGranted ==
  \A s \in Sales :
    row[s].reserved = SumFunctionOnSet([r \in Reservations |-> wants[r].qty], Granted(s))

\* Whatever clock a run of the job or create compared with, and however late its statement
\* lands, a sale is ACTIVE only once it has started and ENDED only once it is over
\* (flash-sale.service.ts:24-53, 69-77).
StatusFollowsClock ==
  \A s \in Sales :
    /\ sale[s].status = "ACTIVE" => sale[s].start <= now
    /\ sale[s].status = "ENDED" => sale[s].end <= now

\* A run with an old clock reading never reopens a sale another run has ended
\* (flash-sale.service.ts:29-37).
SalesNeverReopen ==
  [][\A s \in Sales : sale[s].status = "ENDED" => sale'[s].status = "ENDED"]_vars

\* Every sale that opened is ended by the job (flash-sale.service.ts:43-50).
ActiveSalesEnd == \A s \in Sales : sale[s].status = "ACTIVE" ~> sale[s].status = "ENDED"

-----------------------------------------------------------------------------
(* The inductive invariant of StatusFollowsClock and SalesNeverReopen.     *)

\* What the job and create have read of the clock lies in the past.
ReadingsOK ==
  /\ \A c \in CronRuns : cron[c].read <= now
  /\ \A s \in Sales : form[s].status = "ACTIVE" => form[s].start <= now

\* A form is only pending for a sale that is not there, and never says that it is over.
FormsOK ==
  \A s \in Sales :
    /\ form[s] # NoSale => sale[s] = NoSale
    /\ form[s].status # "ENDED"

\* Only so many reservations have been granted: their sum makes sense.
GrantsOK == \A s \in Sales : IsFiniteSet(Granted(s))

IInv == TypeOK /\ ReadingsOK /\ FormsOK /\ StatusFollowsClock
=============================================================================
