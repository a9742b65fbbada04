-------------------------- MODULE AddressBook_proofs --------------------------
(***************************************************************************)
(* The default address, for any number of addresses and any places: IInv   *)
(* of AddressBook is inductive.                                            *)
(***************************************************************************)
EXTENDS AddressBook, FiniteSetTheorems, TLAPS

-----------------------------------------------------------------------------
(* Types. *)

LEMMA Constants ==
  /\ Somewhere \in Places /\ NoJob \in Job /\ NoRow \in Row
  /\ \A id \in Ids \cup {None}, p \in Places, f \in Flag :
       [id |-> id, place |-> p, isDefault |-> f] \in Job
  /\ \A b \in BOOLEAN : YesNo(b) \in Flag
<1>1. Somewhere \in Places
  BY SomePlace DEF Somewhere
<1> QED
  BY <1>1 DEF NoJob, Job, NoRow, Row, Flag, YesNo

LEMMA RowSetters ==
  ASSUME NEW x \in Row
  PROVE  /\ \A b \in BOOLEAN : [x EXCEPT !.isDefault = b] \in Row
         /\ \A s \in {"absent", "live", "deleted"} : [x EXCEPT !.state = s] \in Row
BY DEF Row

LEMMA NumberOfCreated == IsFiniteSet(Created) /\ Cardinality(Created) \in Nat
<1>1. IsFiniteSet(Ids)
  BY MaxAddressesType, FS_Interval DEF Ids
<1> QED
  BY <1>1, FS_Subset, FS_CardinalityType DEF Created

LEMMA GoToType ==
  ASSUME TypeOK, NEW r \in Requests, NEW s \in PC, GoTo(r, s) PROVE pc' \in [Requests -> PC]
BY DEF TypeOK, GoTo

LEMMA AnswerType ==
  ASSUME TypeOK, NEW r \in Requests, Answer(r)
  PROVE  pc' \in [Requests -> PC] /\ job' \in [Requests -> Job]
BY Constants, GoToType DEF TypeOK, Answer, PC

LEMMA AskType ==
  ASSUME TypeOK, NEW r \in Requests, NEW id \in Ids \cup {None}, NEW p \in Places, NEW f \in Flag,
         Ask(r, id, p, f)
  PROVE  job' \in [Requests -> Job]
BY Constants DEF TypeOK, Ask

LEMMA ClearedType == ASSUME TypeOK, NEW keep PROVE Cleared(keep) \in [Ids -> Row]
BY RowSetters DEF TypeOK, Cleared

LEMMA ChangedType ==
  ASSUME TypeOK, NEW r \in Requests, job[r].id \in Ids
  PROVE  /\ Changed(r) \in Row
         /\ Changed(r).state = row[job[r].id].state
         /\ job[r].isDefault = "keep" => Changed(r).isDefault = row[job[r].id].isDefault
         /\ job[r].isDefault = "yes" => Changed(r).isDefault = TRUE
<1>1. row[job[r].id] \in Row /\ job[r].place \in Places
  BY DEF TypeOK, Job
<1> QED
  BY <1>1 DEF Changed, Row

LEMMA TypeInv == TypeOK /\ [Next]_vars => TypeOK'
<1> SUFFICES ASSUME TypeOK, [Next]_vars PROVE TypeOK'
  OBVIOUS
<1> USE DEF PC
<1>1. ASSUME NEW r \in Requests, NEW p \in Places, NEW asked \in BOOLEAN, Count(r, p, asked)
      PROVE  TypeOK'
  <2>1. None \in Ids \cup {None} /\ YesNo(ShouldBeDefault(asked)) \in Flag
    BY Constants DEF ShouldBeDefault
  <2> QED
    BY <1>1, <2>1, AskType, GoToType DEF Count, TypeOK
<1>2. ASSUME NEW r \in Requests, NEW a \in Ids, NEW p \in Places, NEW f \in Flag,
             BeginUpdate(r, a, p, f)
      PROVE  TypeOK'
  BY <1>2, AskType, GoToType DEF BeginUpdate, TypeOK
<1>3. ASSUME NEW r \in Requests, NEW a \in Ids, BeginSetDefault(r, a) \/ BeginDelete(r, a)
      PROVE  TypeOK'
  <2>1. row[a].place \in Places /\ row[a].isDefault \in BOOLEAN
    BY DEF TypeOK, Row
  <2>2. YesNo(row[a].isDefault) \in Flag /\ "yes" \in Flag
    BY <2>1, Constants DEF Flag
  <2> QED
    BY <1>3, <2>1, <2>2, AskType, GoToType DEF BeginSetDefault, BeginDelete, TypeOK
<1>4. ASSUME NEW r \in Requests, NEW p \in Places, FindSame(r, p) PROVE TypeOK'
  BY <1>4, AskType, GoToType DEF FindSame, TypeOK, Flag
<1>5. ASSUME NEW r \in Requests, Clear(r) \/ ClearOthers(r) PROVE TypeOK'
  BY <1>5, GoToType, ClearedType DEF Clear, ClearOthers, TypeOK
<1>6. ASSUME NEW r \in Requests, Insert(r) PROVE TypeOK'
  <2>1. [state |-> "live", isDefault |-> job[r].isDefault = "yes", place |-> job[r].place] \in Row
    BY DEF TypeOK, Row, Job
  <2> QED
    BY <1>6, <2>1, AnswerType DEF Insert, TypeOK
<1>7. ASSUME NEW r \in Requests, Set(r) PROVE TypeOK'
  <2>1. row' \in [Ids -> Row]
    BY <1>7, ChangedType DEF Set, TypeOK
  <2> QED
    BY <1>7, <2>1, AnswerType DEF Set, TypeOK
<1>8. ASSUME NEW r \in Requests, SetDefault(r) \/ Promote(r) PROVE TypeOK'
  <2>1. row' = [row EXCEPT ![job[r].id].isDefault = TRUE]
    BY <1>8 DEF SetDefault, Promote, Promoted
  <2>2. row' \in [Ids -> Row]
    BY <2>1, RowSetters DEF TypeOK
  <2> QED
    BY <1>8, <2>2, AnswerType DEF SetDefault, Promote, TypeOK
<1>9. ASSUME NEW r \in Requests, SoftDelete(r) PROVE TypeOK'
  BY <1>9, AnswerType, GoToType, RowSetters DEF SoftDelete, TypeOK
<1>10. ASSUME NEW r \in Requests, FindNext(r) PROVE TypeOK'
  <2>1. \A x \in Job, a \in Ids : [x EXCEPT !.id = a] \in Job
    BY DEF Job
  <2> QED
    BY <1>10, <2>1, AnswerType, GoToType DEF FindNext, TypeOK, Live
<1>11. ASSUME NEW r \in Requests, HasAny(r) PROVE TypeOK'
  <2>1. \A x \in Job, f \in Flag : [x EXCEPT !.isDefault = f] \in Job
    BY DEF Job
  <2> QED
    BY <1>11, <2>1, Constants, GoToType DEF HasAny, TypeOK
<1>12. UNCHANGED vars => TypeOK'
  BY DEF vars, TypeOK
<1> QED
  BY <1>1, <1>2, <1>3, <1>4, <1>5, <1>6, <1>7, <1>8, <1>9, <1>10, <1>11, <1>12 DEF Next

-----------------------------------------------------------------------------
(* What each statement does to the addresses there are and to the default. *)

Kept == Live' = Live /\ Created' = Created

LEMMA ClearEffect ==
  ASSUME TypeOK, NEW keep, row' = Cleared(keep) PROVE Kept /\ Defaults' = Defaults \cap keep
<1>1. ASSUME NEW a \in Ids
      PROVE  /\ row'[a].state = row[a].state
             /\ row'[a].isDefault = (row[a].isDefault /\ a \notin Live \ keep)
  <2>1. row'[a] = IF a \in Live \ keep THEN [row[a] EXCEPT !.isDefault = FALSE] ELSE row[a]
    BY DEF Cleared
  <2> QED
    BY <2>1 DEF TypeOK, Row
<1>2. Kept
  BY <1>1 DEF Kept, Live, Created
<1> QED
  BY <1>1, <1>2 DEF Kept, Defaults, Live

LEMMA InsertEffect ==
  ASSUME TypeOK, NumbersOK, NEW r \in Requests, Insert(r)
  PROVE  \E new : /\ new \notin Created /\ new = Cardinality(Created) + 1
                  /\ Created' = Created \cup {new} /\ Live' = Live \cup {new}
                  /\ Defaults' = IF job[r].isDefault = "yes" THEN Defaults \cup {new} ELSE Defaults
<1> DEFINE new == Cardinality(Created) + 1
           x == [state |-> "live", isDefault |-> job[r].isDefault = "yes", place |-> job[r].place]
<1>1. new \in Ids /\ new \notin Created
  BY NumberOfCreated, MaxAddressesType DEF Insert, Room, Ids, NumbersOK
<1>2. row' = [row EXCEPT ![new] = x]
  BY DEF Insert
<1> HIDE DEF new
<1>3. /\ row'[new] = x
      /\ \A a \in Ids : a # new => row'[a] = row[a]
  BY <1>1, <1>2 DEF TypeOK
<1>4. Created' = Created \cup {new}
  BY <1>1, <1>3 DEF Created
<1>5. Live' = Live \cup {new}
  BY <1>1, <1>3 DEF Live
<1>6. new \notin Live
  BY <1>1 DEF Live, Created
<1>7. Defaults' = IF job[r].isDefault = "yes" THEN Defaults \cup {new} ELSE Defaults
  <2>1. x.isDefault = (job[r].isDefault = "yes")
    OBVIOUS
  <2>2. \A a \in Live : a \in Ids /\ a # new /\ row'[a] = row[a]
    BY <1>3, <1>6 DEF Live
  <2>3. \A a \in Live : a \in Defaults' <=> a \in Defaults
    BY <1>5, <2>2 DEF Defaults
  <2>4. new \in Defaults' <=> job[r].isDefault = "yes"
    BY <1>3, <1>5, <2>1 DEF Defaults
  <2> QED
    BY <1>5, <1>6, <2>3, <2>4 DEF Defaults
<1> QED
  BY <1>1, <1>4, <1>5, <1>7 DEF new

LEMMA SetEffect ==
  ASSUME TypeOK, NEW r \in Requests, Set(r), job[r].id \in Live
  PROVE  /\ Kept
         /\ job[r].isDefault = "keep" => Defaults' = Defaults
         /\ job[r].isDefault = "yes" => Defaults' = Defaults \cup {job[r].id}
<1>1. job[r].id \in Ids /\ job[r] \in Job /\ row[job[r].id] \in Row
  BY DEF Live, TypeOK
<1>2. row' = [row EXCEPT ![job[r].id] = Changed(r)]
  BY DEF Set
<1>3. /\ row'[job[r].id].state = row[job[r].id].state
      /\ job[r].isDefault = "keep" => row'[job[r].id].isDefault = row[job[r].id].isDefault
      /\ job[r].isDefault = "yes" => row'[job[r].id].isDefault = TRUE
      /\ \A a \in Ids : a # job[r].id => row'[a] = row[a]
  BY <1>1, <1>2, ChangedType DEF TypeOK
<1>4. Kept
  BY <1>3 DEF Kept, Live, Created
<1> QED
  BY <1>1, <1>3, <1>4 DEF Kept, Defaults, Live

LEMMA SetDefaultEffect ==
  ASSUME TypeOK, NEW id \in Live, row' = [row EXCEPT ![id].isDefault = TRUE]
  PROVE  Kept /\ Defaults' = Defaults \cup {id}
<1>1. id \in Ids /\ row[id] \in Row
  BY DEF Live, TypeOK
<1>2. /\ row'[id].state = row[id].state /\ row'[id].isDefault = TRUE
      /\ \A a \in Ids : a # id => row'[a] = row[a]
  BY <1>1 DEF TypeOK, Row
<1>3. Kept
  BY <1>2 DEF Kept, Live, Created
<1> QED
  BY <1>1, <1>2, <1>3 DEF Kept, Defaults, Live

LEMMA SoftDeleteEffect ==
  ASSUME TypeOK, NEW id \in Live, row' = [row EXCEPT ![id].state = "deleted"]
  PROVE  Created' = Created /\ Live' = Live \ {id} /\ Defaults' = Defaults \ {id}
<1>1. id \in Ids /\ row[id] \in Row /\ row[id].state = "live"
  BY DEF Live, TypeOK
<1>2. /\ row'[id].state = "deleted"
      /\ \A a \in Ids : a # id => row'[a] = row[a]
  BY <1>1 DEF TypeOK, Row
<1>3. Live' = Live \ {id}
  BY <1>2 DEF Live
<1>4. Created' = Created
  BY <1>1, <1>2 DEF Created
<1> QED
  BY <1>2, <1>3, <1>4 DEF Defaults, Live

-----------------------------------------------------------------------------
(* The invariant, statement by statement. *)

\* One request at a time: what holds of it after its step holds of every request.
LEMMA OnlyOne ==
  ASSUME TypeOK, TypeOK', OneAtATime, NEW r \in Requests,
         NumbersOK', OneDefault',
         pc'[r] = "idle" => (Live' = {} \/ Defaults' # {}),
         LET id == job'[r].id
             yes == job'[r].isDefault = "yes" IN
         /\ pc'[r] \in {"clear_others", "set", "set_default", "delete", "promote"} => id \in Live'
         /\ pc'[r] = "clear" => id \in Live' \cup {None}
         /\ pc'[r] \in {"clear", "clear_others"} => yes
         /\ pc'[r] = "count" => Live' = {} \/ Defaults' # {}
         /\ pc'[r] = "insert" => IF yes THEN Defaults' = {} ELSE Defaults' # {}
         /\ pc'[r] = "set" => IF yes THEN Defaults' \subseteq {id}
                              ELSE job'[r].isDefault = "keep" /\ Defaults' # {}
         /\ pc'[r] = "delete" => Defaults' # {} /\ (yes <=> id \in Defaults')
         /\ pc'[r] \in {"set_default", "next", "promote"} => Defaults' = {}
  PROVE  NumbersOK' /\ OneDefault' /\ StatementOK' /\ AlwaysADefault'
<1>1. \A s \in Requests : s = r
  BY DEF OneAtATime
<1>2. StatementOK'
  BY <1>1 DEF StatementOK
<1>3. AlwaysADefault'
  BY DEF AlwaysADefault
<1> QED
  BY <1>2, <1>3

LEMMA GoesTo ==
  ASSUME TypeOK, NEW r \in Requests, NEW s, GoTo(r, s) PROVE pc'[r] = s
BY DEF TypeOK, GoTo

LEMMA Answers == ASSUME TypeOK, NEW r \in Requests, Answer(r) PROVE pc'[r] = "idle"
BY GoesTo DEF Answer

LEMMA Asks ==
  ASSUME TypeOK, NEW r \in Requests, NEW id, NEW p, NEW f, Ask(r, id, p, f)
  PROVE  job'[r].id = id /\ job'[r].isDefault = f
BY DEF TypeOK, Ask

LEMMA SameRows == UNCHANGED row => Kept /\ Defaults' = Defaults
BY DEF Kept, Live, Created, Defaults

LEMMA DefaultInv ==
  ASSUME TypeOK, TypeOK', OneAtATime, NumbersOK, OneDefault, StatementOK, AlwaysADefault, [Next]_vars
  PROVE  NumbersOK' /\ OneDefault' /\ StatementOK' /\ AlwaysADefault'
<1> DEFINE Goal == NumbersOK' /\ OneDefault' /\ StatementOK' /\ AlwaysADefault'
<1>1. Created' = Created => NumbersOK'
  BY DEF NumbersOK
<1>2. Defaults' = Defaults => OneDefault'
  BY DEF OneDefault
<1>3. Defaults \subseteq Live
  BY DEF Defaults
<1>4. None \notin Live
  BY DEF None, Live, Ids
<1> USE DEF Kept
<1>5. ASSUME NEW r \in Requests, NEW p \in Places, NEW asked \in BOOLEAN, Count(r, p, asked)
      PROVE  Goal
  <2>1. Kept /\ Defaults' = Defaults /\ pc[r] = "idle" /\ (Live = {} \/ Defaults # {})
    BY <1>5, SameRows DEF Count, StatementOK
  <2>2. /\ job'[r].id = None /\ job'[r].isDefault = YesNo(ShouldBeDefault(asked))
        /\ pc'[r] = IF ShouldBeDefault(asked) THEN "clear" ELSE "insert"
    BY <1>5, Asks, GoesTo DEF Count
  <2>3. ~ShouldBeDefault(asked) => Live # {}
    BY DEF ShouldBeDefault
  <2> QED
    BY <1>1, <1>2, <2>1, <2>2, <2>3, OnlyOne DEF YesNo
<1>6. ASSUME NEW r \in Requests, NEW a \in Ids, NEW p \in Places, NEW f \in Flag,
             BeginUpdate(r, a, p, f)
      PROVE  Goal
  <2>1. Kept /\ Defaults' = Defaults /\ pc[r] = "idle" /\ a \in Live /\ Defaults # {}
    BY <1>6, SameRows DEF BeginUpdate, StatementOK
  <2>2. /\ job'[r].id = a /\ job'[r].isDefault = f
        /\ pc'[r] = IF f = "yes" THEN "clear_others" ELSE "set"
    BY <1>6, Asks, GoesTo DEF BeginUpdate
  <2>3. f \in {"yes", "keep"}
    BY <1>6 DEF BeginUpdate, OneAtATime, Flag
  <2> QED
    BY <1>1, <1>2, <2>1, <2>2, <2>3, OnlyOne
<1>7. ASSUME NEW r \in Requests, NEW a \in Ids, BeginSetDefault(r, a) PROVE Goal
  <2>1. Kept /\ Defaults' = Defaults /\ a \in Live
    BY <1>7, SameRows DEF BeginSetDefault
  <2>2. job'[r].id = a /\ job'[r].isDefault = "yes" /\ pc'[r] = "clear"
    BY <1>7, Asks, GoesTo DEF BeginSetDefault
  <2> QED
    BY <1>1, <1>2, <2>1, <2>2, OnlyOne
<1>8. ASSUME NEW r \in Requests, NEW a \in Ids, BeginDelete(r, a) PROVE Goal
  <2>1. Kept /\ Defaults' = Defaults /\ pc[r] = "idle" /\ a \in Live /\ Defaults # {}
    BY <1>8, SameRows DEF BeginDelete, StatementOK
  <2>2. job'[r].id = a /\ job'[r].isDefault = YesNo(row[a].isDefault) /\ pc'[r] = "delete"
    BY <1>8, Asks, GoesTo DEF BeginDelete
  <2>3. row[a].isDefault <=> a \in Defaults
    BY <2>1 DEF Defaults
  <2> QED
    BY <1>1, <1>2, <2>1, <2>2, <2>3, OnlyOne DEF YesNo
<1>9. ASSUME NEW r \in Requests, NEW p \in Places, FindSame(r, p) PROVE Goal
  <2>1. Kept /\ Defaults' = Defaults /\ pc[r] = "idle" /\ (Live = {} \/ Defaults # {})
    BY <1>9, SameRows DEF FindSame, StatementOK
  <2>2. pc'[r] = "count"
    BY <1>9, GoesTo DEF FindSame
  <2> QED
    BY <1>1, <1>2, <2>1, <2>2, OnlyOne
<1>10. ASSUME NEW r \in Requests, Clear(r) PROVE Goal
  <2>1. Kept /\ Defaults' = {} /\ job[r].isDefault = "yes" /\ job[r].id \in Live \cup {None}
    BY <1>10, ClearEffect DEF Clear, StatementOK
  <2>2. job' = job /\ pc'[r] = IF job[r].id = None THEN "insert" ELSE "set_default"
    BY <1>10, GoesTo DEF Clear
  <2>3. OneDefault'
    BY <2>1 DEF OneDefault
  <2> QED
    BY <1>1, <2>1, <2>2, <2>3, OnlyOne
<1>11. ASSUME NEW r \in Requests, ClearOthers(r) PROVE Goal
  <2>1. /\ Kept /\ Defaults' = Defaults \cap {job[r].id}
        /\ job[r].isDefault = "yes" /\ job[r].id \in Live
    BY <1>11, ClearEffect DEF ClearOthers, StatementOK
  <2>2. job' = job /\ pc'[r] = "set"
    BY <1>11, GoesTo DEF ClearOthers
  <2>3. OneDefault'
    BY <2>1 DEF OneDefault
  <2> QED
    BY <1>1, <2>1, <2>2, <2>3, OnlyOne
<1>12. ASSUME NEW r \in Requests, Insert(r) PROVE Goal
  <2>1. IF job[r].isDefault = "yes" THEN Defaults = {} ELSE Defaults # {}
    BY <1>12 DEF Insert, StatementOK
  <2>2. PICK new : /\ new \notin Created /\ new = Cardinality(Created) + 1
                   /\ Created' = Created \cup {new} /\ Live' = Live \cup {new}
                   /\ Defaults' = IF job[r].isDefault = "yes" THEN Defaults \cup {new} ELSE Defaults
    BY <1>12, InsertEffect
  <2>3. NumbersOK'
    <3>1. Cardinality(Created') = Cardinality(Created) + 1
      BY <2>2, NumberOfCreated, FS_AddElement
    <3>2. Created' = 1 .. (Cardinality(Created) + 1)
      BY <2>2, NumberOfCreated DEF NumbersOK
    <3> QED
      BY <3>1, <3>2 DEF NumbersOK
  <2>4. OneDefault' /\ Defaults' # {}
    BY <2>1, <2>2 DEF OneDefault
  <2>5. pc'[r] = "idle"
    BY <1>12, Answers DEF Insert
  <2> QED
    BY <2>3, <2>4, <2>5, OnlyOne
<1>13. ASSUME NEW r \in Requests, Set(r) PROVE Goal
  <2>1. /\ job[r].id \in Live
        /\ IF job[r].isDefault = "yes" THEN Defaults \subseteq {job[r].id}
           ELSE job[r].isDefault = "keep" /\ Defaults # {}
    BY <1>13 DEF Set, StatementOK
  <2>2. Kept /\ Defaults' # {} /\ (Defaults' = Defaults \/ Defaults' = {job[r].id})
    BY <1>13, <2>1, SetEffect
  <2>3. OneDefault'
    BY <1>2, <2>2 DEF OneDefault
  <2>4. pc'[r] = "idle"
    BY <1>13, Answers DEF Set
  <2> QED
    BY <1>1, <2>2, <2>3, <2>4, OnlyOne
<1>14. ASSUME NEW r \in Requests, SetDefault(r) \/ Promote(r) PROVE Goal
  <2>1. job[r].id \in Live /\ Defaults = {}
    BY <1>14 DEF SetDefault, Promote, StatementOK
  <2>2. Kept /\ Defaults' = {job[r].id}
    BY <1>14, <2>1, SetDefaultEffect DEF SetDefault, Promote, Promoted
  <2>3. OneDefault'
    BY <2>2 DEF OneDefault
  <2>4. pc'[r] = "idle"
    BY <1>14, Answers DEF SetDefault, Promote
  <2> QED
    BY <1>1, <2>2, <2>3, <2>4, OnlyOne
<1>15. ASSUME NEW r \in Requests, SoftDelete(r) PROVE Goal
  <2>1. /\ job[r].id \in Live /\ Defaults # {}
        /\ job[r].isDefault = "yes" <=> job[r].id \in Defaults
    BY <1>15 DEF SoftDelete, StatementOK
  <2>2. Created' = Created /\ Live' = Live \ {job[r].id} /\ Defaults' = Defaults \ {job[r].id}
    BY <1>15, <2>1, SoftDeleteEffect DEF SoftDelete
  <2>3. OneDefault'
    BY <2>2 DEF OneDefault
  <2>4. CASE job[r].isDefault = "yes"
    <3>1. pc'[r] = "next"
      BY <1>15, <2>4, GoesTo DEF SoftDelete
    <3>2. Defaults' = {}
      BY <2>1, <2>2, <2>4 DEF OneDefault
    <3> QED
      BY <1>1, <2>2, <2>3, <3>1, <3>2, OnlyOne
  <2>5. CASE job[r].isDefault # "yes"
    <3>1. pc'[r] = "idle"
      BY <1>15, <2>5, Answers DEF SoftDelete
    <3>2. Defaults' # {}
      BY <2>1, <2>2, <2>5
    <3> QED
      BY <1>1, <2>2, <2>3, <3>1, <3>2, OnlyOne
  <2> QED
    BY <2>4, <2>5
<1>16. ASSUME NEW r \in Requests, FindNext(r) PROVE Goal
  <2>1. Kept /\ Defaults' = Defaults /\ Defaults = {}
    BY <1>16, SameRows DEF FindNext, StatementOK
  <2>2. \/ Live = {} /\ pc'[r] = "idle"
        \/ job'[r].id \in Live /\ pc'[r] = "promote"
    <3>1. CASE Live = {}
      BY <1>16, <3>1, Answers DEF FindNext
    <3>2. CASE Live # {}
      BY <1>16, <3>2, GoesTo DEF FindNext, TypeOK, Job
    <3> QED
      BY <3>1, <3>2
  <2> QED
    BY <1>1, <1>2, <2>1, <2>2, OnlyOne
<1>17. ASSUME NEW r \in Requests, HasAny(r) PROVE Goal
  <2>1. Kept /\ Defaults' = Defaults /\ (Live = {} \/ Defaults # {})
    BY <1>17, SameRows DEF HasAny, StatementOK
  <2>2. job'[r].isDefault = YesNo(Live = {}) /\ pc'[r] = "insert"
    BY <1>17, GoesTo DEF HasAny, TypeOK, Job
  <2> QED
    BY <1>1, <1>2, <1>3, <2>1, <2>2, OnlyOne DEF YesNo
<1>18. UNCHANGED vars => Goal
  BY DEF vars, NumbersOK, Created, OneDefault, Defaults, Live, StatementOK, AlwaysADefault
<1> HIDE DEF Goal
<1>19. Goal
  BY <1>5, <1>6, <1>7, <1>8, <1>9, <1>10, <1>11, <1>12, <1>13, <1>14, <1>15, <1>16, <1>17, <1>18
     DEF Next
<1> QED
  BY <1>19 DEF Goal

-----------------------------------------------------------------------------

LEMMA InitInv == Init => IInv
<1> SUFFICES ASSUME Init PROVE IInv
  OBVIOUS
<1>1. TypeOK
  BY Constants DEF Init, TypeOK, PC
<1>2. Live = {} /\ Created = {} /\ Defaults = {}
  BY DEF Init, NoRow, Live, Created, Defaults
<1>3. NumbersOK
  <2>1. Cardinality(Created) = 0 /\ 1 .. 0 = {}
    BY <1>2, FS_EmptySet
  <2> QED
    BY <1>2, <2>1 DEF NumbersOK
<1>4. \A r \in Requests : pc[r] = "idle"
  BY DEF Init
<1> QED
  BY <1>1, <1>2, <1>3, <1>4 DEF IInv, OneDefault, StatementOK, AlwaysADefault

LEMMA NextInv == IInv /\ [Next]_vars => IInv'
<1> SUFFICES ASSUME IInv, [Next]_vars PROVE IInv'
  OBVIOUS
<1>1. TypeOK /\ TypeOK'
  BY TypeInv DEF IInv
<1>2. OneAtATime' => OneAtATime
  BY DEF OneAtATime
<1>3. OneAtATime => NumbersOK' /\ OneDefault' /\ StatementOK' /\ AlwaysADefault'
  BY <1>1, DefaultInv DEF IInv
<1> QED
  BY <1>1, <1>2, <1>3 DEF IInv

LEMMA Invariance == Spec => []IInv
BY InitInv, NextInv, PTL DEF Spec

\* The table and every request keep their types, however many requests overlap.
THEOREM TypeCorrect == Spec => []TypeOK
<1>1. IInv => TypeOK
  BY DEF IInv
<1> QED
  BY Invariance, <1>1, PTL

\* With one request at a time there is at most one default between any two statements, for any
\* number of addresses.
THEOREM OneDefaultAtMost ==
  ASSUME OneAtATime PROVE Spec => []AtMostOneDefault
<1>1. IInv => AtMostOneDefault
  <2> SUFFICES ASSUME OneDefault PROVE Cardinality(Defaults) <= 1
    BY DEF IInv, AtMostOneDefault
  <2>1. CASE Defaults = {}
    BY <2>1, FS_EmptySet
  <2>2. ASSUME NEW a \in Defaults PROVE Cardinality(Defaults) <= 1
    <3>1. Defaults = {a}
      BY DEF OneDefault
    <3> QED
      BY <3>1, FS_Singleton
  <2> QED
    BY <2>1, <2>2
<1> QED
  BY Invariance, <1>1, PTL

\* With one request at a time, a customer who has addresses has a default one whenever no request
\* is under way.
THEOREM ADefaultAlways ==
  ASSUME OneAtATime PROVE Spec => []AlwaysADefault
<1>1. IInv => AlwaysADefault
  BY DEF IInv
<1> QED
  BY Invariance, <1>1, PTL

=============================================================================
