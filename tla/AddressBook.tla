----------------------------- MODULE AddressBook -----------------------------
(***************************************************************************)
(* The addresses of one customer and which of them is the default.  An     *)
(* action is one SQL statement; address.service.ts uses no transaction, so *)
(* requests of the customer's devices and checkouts interleave.            *)
(***************************************************************************)
EXTENDS Integers, FiniteSets

CONSTANTS
  MaxAddresses,  \* bound on the addresses ever created
  Places,        \* what makes two addresses the same: street, city and zip
  Requests,      \* requests under way at a time, each serving one after the other
  MayUnset       \* TRUE: an update may carry isDefault = false

ASSUME MaxAddressesType == MaxAddresses \in Nat
ASSUME MayUnsetType == MayUnset \in BOOLEAN
ASSUME SomePlace == Places # {}

Ids == 1 .. MaxAddresses   \* in the order of createdAt

VARIABLES
  row,    \* addresses table
  pc,     \* the statement a request sends next
  job     \* what a request was asked and what it read

vars == <<row, pc, job>>

None == 0
Row == [state: {"absent", "live", "deleted"}, isDefault: BOOLEAN, place: Places]
\* A field that an update leaves out keeps its value.
Flag == {"yes", "no", "keep"}
Job == [id: Ids \cup {None}, place: Places, isDefault: Flag]
PC == {"idle", "count", "clear", "insert", "clear_others", "set", "set_default", "delete",
       "next", "promote"}

TypeOK ==
  /\ row \in [Ids -> Row]
  /\ pc \in [Requests -> PC]
  /\ job \in [Requests -> Job]

Somewhere == CHOOSE p \in Places : TRUE
NoJob == [id |-> None, place |-> Somewhere, isDefault |-> "no"]
NoRow == [state |-> "absent", isDefault |-> FALSE, place |-> Somewhere]

Init ==
  /\ row = [a \in Ids |-> NoRow]
  /\ pc = [r \in Requests |-> "idle"]
  /\ job = [r \in Requests |-> NoJob]

Live == {a \in Ids : row[a].state = "live"}
Created == {a \in Ids : row[a].state # "absent"}
Room == Cardinality(Created) < MaxAddresses
GoTo(r, s) == pc' = [pc EXCEPT ![r] = s]
Answer(r) == GoTo(r, "idle") /\ job' = [job EXCEPT ![r] = NoJob]
Ask(r, id, place, isDefault) ==
  job' = [job EXCEPT ![r] = [id |-> id, place |-> place, isDefault |-> isDefault]]
YesNo(b) == IF b THEN "yes" ELSE "no"

-----------------------------------------------------------------------------
(* create *)

DefaultAsAsked(asked) == asked
ShouldBeDefault(asked) == asked \/ Live = {}

Count(r, place, asked) ==
  /\ pc[r] = "idle" /\ Room
  /\ Ask(r, None, place, YesNo(ShouldBeDefault(asked)))
  /\ GoTo(r, IF ShouldBeDefault(asked) THEN "clear" ELSE "insert")
  /\ UNCHANGED row

\* UPDATE addresses SET is_default = false: all live ones, or all but the one to set.
ClearedNewestOnly(keep) ==
  [a \in Ids |-> IF a \in Live \ keep /\ \A b \in Live \ keep : b <= a
                 THEN [row[a] EXCEPT !.isDefault = FALSE] ELSE row[a]]
Cleared(keep) ==
  [a \in Ids |-> IF a \in Live \ keep THEN [row[a] EXCEPT !.isDefault = FALSE] ELSE row[a]]

Clear(r) ==
  /\ pc[r] = "clear"
  /\ row' = Cleared({})
  /\ GoTo(r, IF job[r].id = None THEN "insert" ELSE "set_default")
  /\ UNCHANGED job

Insert(r) ==
  /\ pc[r] = "insert" /\ Room
  /\ row' = [row EXCEPT ![Cardinality(Created) + 1] =
       [state |-> "live", isDefault |-> job[r].isDefault = "yes", place |-> job[r].place]]
  /\ Answer(r)

-----------------------------------------------------------------------------
(* update and setDefault; the address was found live and the customer's *)

BeginUpdate(r, a, place, isDefault) ==
  /\ pc[r] = "idle" /\ a \in Live
  /\ isDefault = "no" => MayUnset
  /\ Ask(r, a, place, isDefault)
  /\ GoTo(r, IF isDefault = "yes" THEN "clear_others" ELSE "set")
  /\ UNCHANGED row

ClearOthers(r) ==
  /\ pc[r] = "clear_others"
  /\ row' = Cleared({job[r].id})
  /\ GoTo(r, "set")
  /\ UNCHANGED job

BeginSetDefault(r, a) ==
  /\ pc[r] = "idle" /\ a \in Live
  /\ Ask(r, a, row[a].place, "yes")
  /\ GoTo(r, "clear")
  /\ UNCHANGED row

\* What the update makes of the row: what it leaves out stays.
Changed(r) ==
  [row[job[r].id] EXCEPT !.place = job[r].place,
     !.isDefault = IF job[r].isDefault = "keep" THEN @ ELSE job[r].isDefault = "yes"]

\* Both updates go by id only: they also find a row deleted meanwhile.
Set(r) ==
  /\ pc[r] = "set"
  /\ row' = [row EXCEPT ![job[r].id] = Changed(r)]
  /\ Answer(r)

SetDefault(r) ==
  /\ pc[r] = "set_default"
  /\ row' = [row EXCEPT ![job[r].id].isDefault = TRUE]
  /\ Answer(r)

-----------------------------------------------------------------------------
(* delete: a soft delete that leaves is_default of the deleted row as it is *)

BeginDelete(r, a) ==
  /\ pc[r] = "idle" /\ a \in Live
  /\ Ask(r, a, row[a].place, YesNo(row[a].isDefault))
  /\ GoTo(r, "delete")
  /\ UNCHANGED row

SoftDelete(r) ==
  /\ pc[r] = "delete"
  /\ row' = [row EXCEPT ![job[r].id].state = "deleted"]
  /\ IF job[r].isDefault = "yes" THEN GoTo(r, "next") /\ UNCHANGED job ELSE Answer(r)

FindNext(r) ==
  /\ pc[r] = "next"
  /\ IF Live = {} THEN Answer(r)
     ELSE \E a \in Live :
            /\ \A b \in Live : b <= a
            /\ job' = [job EXCEPT ![r].id = a]
            /\ GoTo(r, "promote")
  /\ UNCHANGED row

PromotedByState(r) == [row EXCEPT ![job[r].id].state = "default"]
Promoted(r) == [row EXCEPT ![job[r].id].isDefault = TRUE]

Promote(r) ==
  /\ pc[r] = "promote"
  /\ row' = Promoted(r)
  /\ Answer(r)

-----------------------------------------------------------------------------
(* saveFromOrder, after a guest's checkout *)

FindSame(r, place) ==
  /\ pc[r] = "idle" /\ Room
  /\ \A a \in Live : row[a].place # place
  /\ Ask(r, None, place, "no")
  /\ GoTo(r, "count")
  /\ UNCHANGED row

HasAny(r) ==
  /\ pc[r] = "count"
  /\ job' = [job EXCEPT ![r].isDefault = YesNo(Live = {})]
  /\ GoTo(r, "insert")
  /\ UNCHANGED row

Next == \E r \in Requests :
  \/ \E p \in Places, asked \in BOOLEAN : Count(r, p, asked)
  \/ \E a \in Ids, p \in Places, isDefault \in Flag : BeginUpdate(r, a, p, isDefault)
  \/ \E a \in Ids : BeginSetDefault(r, a) \/ BeginDelete(r, a)
  \/ \E p \in Places : FindSame(r, p)
  \/ Clear(r) \/ Insert(r) \/ ClearOthers(r) \/ Set(r) \/ SetDefault(r)
  \/ SoftDelete(r) \/ FindNext(r) \/ Promote(r) \/ HasAny(r)

Spec == Init /\ [][Next]_vars

-----------------------------------------------------------------------------
Defaults == {a \in Live : row[a].isDefault}

\* While requests come one at a time, at most one address is the default at any moment
\* between statements (address.service.ts:33-126).
AtMostOneDefault == Cardinality(Defaults) <= 1

\* Between requests, a customer with addresses has a default: the first one becomes it
\* (39-40), and deleting the default promotes another (114-125).
AlwaysADefault == (\A r \in Requests : pc[r] = "idle") /\ Live # {} => Defaults # {}

-----------------------------------------------------------------------------
(* The inductive invariant. *)

\* The premise of both properties: one request at a time, and no update that only unsets.
OneAtATime == ~MayUnset /\ \A r, s \in Requests : r = s

\* A new address gets a number of its own.
NumbersOK == Created = 1 .. Cardinality(Created)

OneDefault == \A a, b \in Defaults : a = b

\* What the request under way knows of its address, and of the default it takes away, leaves
\* alone or is about to give.
StatementOK ==
  \A r \in Requests :
    LET id == job[r].id
        yes == job[r].isDefault = "yes" IN
    /\ pc[r] \in {"clear_others", "set", "set_default", "delete", "promote"} => id \in Live
    /\ pc[r] = "clear" => id \in Live \cup {None}
    /\ pc[r] \in {"clear", "clear_others"} => yes
    /\ pc[r] \in {"idle", "count"} => Live = {} \/ Defaults # {}
    /\ pc[r] = "insert" => IF yes THEN Defaults = {} ELSE Defaults # {}
    /\ pc[r] = "set" => IF yes THEN Defaults \subseteq {id}
                        ELSE job[r].isDefault = "keep" /\ Defaults # {}
    /\ pc[r] = "delete" => Defaults # {} /\ (yes <=> id \in Defaults)
    /\ pc[r] \in {"set_default", "next", "promote"} => Defaults = {}

IInv ==
  /\ TypeOK
  /\ OneAtATime => NumbersOK /\ OneDefault /\ StatementOK /\ AlwaysADefault
=============================================================================
