----------------------------- MODULE CategoryTree -----------------------------
(***************************************************************************)
(* The category tree, stored twice: every category names its parent, and   *)
(* keeps its ancestors as a materialized path, once as ids and once as     *)
(* slugs.  A move or a change of slug rewrites the paths of the whole      *)
(* subtree, one statement at a time and without a transaction.             *)
(*                                                                         *)
(* An action is one SQL statement.  Reads whose answer the code does not   *)
(* keep across the next statement are part of the action that uses them.   *)
(* depth is Len(ids) in every write and is left out; so are media links.   *)
(***************************************************************************)
EXTENDS Integers, Sequences, SequencesExt, FiniteSets

CONSTANTS
  Categories,   \* ids of the categories there may be
  Root,         \* the parent of a top-level category: null
  Requests,     \* admins, each with one request under way at a time
  MayLoop       \* TRUE: an admin may move a category below itself; FALSE: none tries

ASSUME RootIsNoCategory == Root \notin Categories
ASSUME MayLoopType == MayLoop \in BOOLEAN

VARIABLES
  row,   \* categories table
  pc,    \* the statement an admin's request will send next
  job    \* what the request was asked and what its reads returned

vars == <<row, pc, job>>

\* A slug is its category's id and which of its two names it has.
Slug == [of: Categories, name: {0, 1}]
CategoryRow == [state: {"absent", "live", "deleted"}, parent: Categories \cup {Root},
                ids: Seq(Categories), path: Seq(Slug), name: {0, 1}, active: BOOLEAN]
NoCategory == [state |-> "absent", parent |-> Root, ids |-> <<>>, path |-> <<>>, name |-> 0,
               active |-> FALSE]
Job == [cat: Categories \cup {Root}, parent: Categories \cup {Root},
        ids: Seq(Categories), path: Seq(Slug), todo: SUBSET (Categories \X Seq(Categories))]
NoJob == [cat |-> Root, parent |-> Root, ids |-> <<>>, path |-> <<>>, todo |-> {}]

TypeOK ==
  /\ row \in [Categories -> CategoryRow]
  /\ pc \in [Requests -> {"idle", "create", "build_move", "move", "build_rename", "rename",
                          "find", "rewrite", "remove", "delete"}]
  /\ job \in [Requests -> Job]

Init ==
  /\ row = [c \in Categories |-> NoCategory]
  /\ pc = [r \in Requests |-> "idle"]
  /\ job = [r \in Requests |-> NoJob]

Live(c) == row[c].state = "live"
SlugOf(c) == [of |-> c, name |-> row[c].name]
GoTo(r, s) == pc' = [pc EXCEPT ![r] = s]
Finish(r) == GoTo(r, "idle") /\ job' = [job EXCEPT ![r] = NoJob]

\* buildPath: the path of a child of p.
PathBelow(p) ==
  IF p = Root THEN [ids |-> <<>>, path |-> <<>>]
  ELSE [ids |-> Append(row[p].ids, p), path |-> Append(row[p].path, SlugOf(p))]

\* The parent a request names is found, or buildPath throws NotFound.
BuildPath(r, c, p, next) ==
  IF p # Root /\ ~Live(p) THEN Finish(r)
  ELSE /\ job' = [job EXCEPT ![r] = [cat |-> c, parent |-> p, todo |-> {},
                    ids |-> PathBelow(p).ids, path |-> PathBelow(p).path]]
       /\ GoTo(r, next)

-----------------------------------------------------------------------------
(* create *)
CreateBegin(r, c, p) ==
  /\ pc[r] = "idle" /\ row[c] = NoCategory /\ p # c
  /\ \A q \in Requests : job[q].cat # c
  /\ BuildPath(r, c, p, "create")
  /\ UNCHANGED row

Insert(r) ==
  /\ pc[r] = "create"
  /\ \E flag \in BOOLEAN : row' = [row EXCEPT ![job[r].cat] =
       [state |-> "live", parent |-> job[r].parent, ids |-> job[r].ids,
        path |-> job[r].path, name |-> 0, active |-> flag]]
  /\ Finish(r)

-----------------------------------------------------------------------------
(* move *)

\* The code's guard: the new parent is not among the ids stored in the moved category.
RefusedMove(c, p) == p = c \/ (p # Root /\ Contains(row[c].ids, p))

\* What an admin who does not try the impossible asks for.
OutsideSubtree(c, p) == p # c /\ (p # Root => ~Contains(row[p].ids, c))

MoveBegin(r, c, p) ==
  /\ pc[r] = "idle" /\ Live(c)
  /\ MayLoop \/ OutsideSubtree(c, p)
  /\ IF RefusedMove(c, p) THEN UNCHANGED <<pc, job>>
     ELSE /\ job' = [job EXCEPT ![r] = [NoJob EXCEPT !.cat = c, !.parent = p]]
          /\ GoTo(r, "build_move")
  /\ UNCHANGED row

MoveBuild(r) ==
  /\ pc[r] = "build_move"
  /\ BuildPath(r, job[r].cat, job[r].parent, "move")
  /\ UNCHANGED row

\* A row with the parent and the path it is to be given.
Placed(c, p, ids, path) == [row[c] EXCEPT !.parent = p, !.ids = ids, !.path = path]

MoveWrite(r) ==
  /\ pc[r] = "move"
  /\ row' = [row EXCEPT ![job[r].cat] =
                Placed(job[r].cat, job[r].parent, job[r].ids, job[r].path)]
  /\ GoTo(r, "find")
  /\ UNCHANGED job

-----------------------------------------------------------------------------
(* update *)

\* One that leaves the slug alone is one statement, and no path follows.
SwitchActive(r, c) ==
  /\ pc[r] = "idle" /\ Live(c)
  /\ row' = [row EXCEPT ![c].active = ~@]
  /\ UNCHANGED <<pc, job>>

\* One that changes the slug, and isActive with it if the form says so.
RenameBegin(r, c) ==
  /\ pc[r] = "idle" /\ Live(c)
  /\ \E flag \in BOOLEAN : row' = [row EXCEPT ![c].name = 1 - @, ![c].active = flag]
  /\ job' = [job EXCEPT ![r] = [NoJob EXCEPT !.cat = c, !.parent = row[c].parent]]
  /\ GoTo(r, "build_rename")

RenameBuild(r) ==
  /\ pc[r] = "build_rename"
  /\ BuildPath(r, job[r].cat, job[r].parent, "rename")
  /\ UNCHANGED row

RenameWrite(r) ==
  /\ pc[r] = "rename"
  /\ row' = [row EXCEPT ![job[r].cat] =
                Placed(job[r].cat, row[job[r].cat].parent, job[r].ids, job[r].path)]
  /\ GoTo(r, "find")
  /\ UNCHANGED job

-----------------------------------------------------------------------------
(* updateDescendantPaths *)

ChildrenOnly(c) == {d \in Categories \ {c} : Live(d) /\ row[d].parent = c}
Descendants(c) == {d \in Categories \ {c} : Live(d) /\ Contains(row[d].ids, c)}

FindDescendants(r) ==
  /\ pc[r] = "find"
  /\ LET found == Descendants(job[r].cat) IN
       IF found = {} THEN Finish(r)
       ELSE /\ job' = [job EXCEPT ![r].todo = {<<d, row[d].ids>> : d \in found}]
            /\ GoTo(r, "rewrite")
  /\ UNCHANGED row

\* The ids after the first occurrence of c.
After(ids, c) == SubSeq(ids, SelectInSeq(ids, LAMBDA x : x = c) + 1, Len(ids))

SplicedWithoutRest(ids, c, newIds) == Append(newIds, c)
SplicedAtEmptyId(ids, c, newIds) ==
  Append(IF newIds = <<>> THEN <<Root>> ELSE newIds, c) \o After(ids, c)
Spliced(ids, c, newIds) == Append(newIds, c) \o After(ids, c)

SlugPathAtCreation(ids) == [k \in DOMAIN ids |-> [of |-> ids[k], name |-> 0]]
\* An id that names no category is passed over.
Known(ids) ==
  IF \A k \in DOMAIN ids : ids[k] \in Categories THEN ids
  ELSE SelectSeq(ids, LAMBDA c : c \in Categories)
SlugPath(ids) == [k \in DOMAIN Known(ids) |-> SlugOf(Known(ids)[k])]

RewriteDescendant(r) ==
  /\ pc[r] = "rewrite"
  /\ \E t \in job[r].todo :
       LET ids == Spliced(t[2], job[r].cat, job[r].ids) IN
       /\ row' = [row EXCEPT ![t[1]] = Placed(t[1], row[t[1]].parent, ids, SlugPath(ids))]
       /\ IF job[r].todo = {t} THEN Finish(r)
          ELSE job' = [job EXCEPT ![r].todo = @ \ {t}] /\ UNCHANGED pc

-----------------------------------------------------------------------------
(* remove; a category with products is refused without a write *)

RemoveBegin(r, c) ==
  /\ pc[r] = "idle" /\ Live(c)
  /\ job' = [job EXCEPT ![r] = [NoJob EXCEPT !.cat = c]]
  /\ GoTo(r, "remove")
  /\ UNCHANGED row

RemoveFind(r) ==
  /\ pc[r] = "remove"
  /\ job' = [job EXCEPT ![r].todo = {<<d, row[d].ids>> : d \in Descendants(job[r].cat)}]
  /\ GoTo(r, "delete")
  /\ UNCHANGED row

IdsToDelete(r) == {job[r].cat} \cup {t[1] : t \in job[r].todo}

Delete(r) ==
  /\ pc[r] = "delete"
  /\ row' = [c \in Categories |->
       IF c \in IdsToDelete(r) THEN [row[c] EXCEPT !.state = "deleted"] ELSE row[c]]
  /\ Finish(r)

-----------------------------------------------------------------------------
(* What the reads show. *)

Lives == {c \in Categories : Live(c)}
Active == {c \in Lives : row[c].active}

\* loadChildren, once for a whole level, of the categories "shown" lets through.
ChildrenOf(parents, shown) == {d \in shown : row[d].parent \in parents}
Loaded(parents, shown) ==
  LET level[n \in 0 .. Cardinality(Categories)] ==
        IF n = 0 THEN parents ELSE ChildrenOf(level[n - 1], shown)
  IN  UNION {level[n] : n \in 1 .. Cardinality(Categories)}

\* getTree, for administrators, shows inactive categories; getTreeWithCounts does not.
Tree == Loaded({Root}, Lives)
TreeWithCounts == Loaded({Root}, Active)

\* The categories whose products are listed: the one asked for, active or not, and the
\* active ones whose stored ids contain it.
WithSubcategories(c) == {c} \cup (Descendants(c) \cap Active)

Next == \E r \in Requests :
  \/ \E c \in Categories, p \in Categories \cup {Root} : CreateBegin(r, c, p) \/ MoveBegin(r, c, p)
  \/ \E c \in Categories : SwitchActive(r, c) \/ RenameBegin(r, c) \/ RemoveBegin(r, c)
  \/ Insert(r) \/ MoveBuild(r) \/ MoveWrite(r) \/ RenameBuild(r) \/ RenameWrite(r)
  \/ FindDescendants(r) \/ RewriteDescendant(r) \/ RemoveFind(r) \/ Delete(r)

Spec == Init /\ [][Next]_vars

-----------------------------------------------------------------------------
Quiet == \A r \in Requests : pc[r] = "idle"

\* Between requests, the stored ids of a live category are those of its parent and the
\* parent itself: splicing the paths of a subtree (category.service.ts:56-132) agrees with
\* building them from the top (26-51) after any sequence of moves, renames and removals.
IdsFollowParents ==
  Quiet => \A c \in Categories : Live(c) => row[c].ids = PathBelow(row[c].parent).ids

\* Between requests, the slug path shows the current slug of every ancestor, also of one
\* renamed far above (category.service.ts:716-724).
SlugsFollowNames ==
  Quiet => \A c \in Categories : Live(c) => row[c].path = PathBelow(row[c].parent).path

\* The tree read level by level from the roots shows every live category, also between two
\* statements of an edit, so a removal never leaves a live child behind
\* (category.service.ts:833-856, 894-925).  Between requests the two readings by stored ids
\* and by parents agree: the products listed for a category with its subcategories
\* (1016-1034) are its own and those of the active categories the tree shows below it; and
\* the public tree (931-996) shows an active category just if all that its stored path
\* names are active.  (So the lookup also lists an active category that the public tree
\* hides behind an inactive one.)
ReadsShowTheTree ==
  /\ Tree = Lives
  /\ Quiet =>
       /\ \A c \in Tree : WithSubcategories(c) = {c} \cup (Loaded({c}, Lives) \cap Active)
       /\ TreeWithCounts = {c \in Active : \A k \in DOMAIN row[c].ids : row[row[c].ids[k]].active}

\* What the comment at category.service.ts:751 promises: no set of categories has all its
\* parents inside, where no walk from the roots (getTree, 894-925) would ever find it.
NoCycle ==
  \A S \in SUBSET {c \in Categories : Live(c)} :
    S # {} => \E c \in S : row[c].parent \notin S

-----------------------------------------------------------------------------
(* The inductive invariant, for one request at a time.                     *)

OneAtATime == ~MayLoop /\ \E r \in Requests : Requests = {r}

\* The rows a request has yet to rewrite, and the ids that every row will have then.
Due(r) ==
  IF pc[r] = "find" THEN Descendants(job[r].cat)
  ELSE IF pc[r] = "rewrite" THEN {t[1] : t \in job[r].todo} ELSE {}
Final(r) ==
  [d \in Categories |-> IF d \in Due(r) THEN Spliced(row[d].ids, job[r].cat, job[r].ids)
                        ELSE row[d].ids]

\* Each id in a live category's path is live, and its own path is the part before it.
Rooted(f, live) ==
  \A d \in live : /\ f[d] \in Seq(live)
                  /\ \A k \in 1 .. Len(f[d]) : f[f[d][k]] = SubSeq(f[d], 1, k - 1)

\* A path ends in the parent.
EndsInParent(f) ==
  \A d \in Lives : row[d].parent = IF f[d] = <<>> THEN Root ELSE f[d][Len(f[d])]

\* What a request knows of the tree at each statement.
KnowsTree(r) ==
  LET cat == job[r].cat
      p == job[r].parent IN
  /\ pc[r] = "create" => row[cat] = NoCategory
  /\ pc[r] \in {"create", "move"} => (p = Root \/ Live(p)) /\ job[r].ids = PathBelow(p).ids
  /\ pc[r] \in {"build_move", "move"} => OutsideSubtree(cat, p)
  /\ pc[r] = "build_rename" => p = row[cat].parent
  /\ pc[r] \in {"rename", "find", "rewrite"} => job[r].ids = row[cat].ids
  /\ pc[r] \notin {"idle", "create"} => Live(cat)
  /\ pc[r] = "rewrite" => \A t \in job[r].todo : t[1] # cat /\ Live(t[1]) /\ t[2] = row[t[1]].ids
  /\ pc[r] = "delete" => IdsToDelete(r) = {cat} \cup Descendants(cat)

\* The rows whose slug path is behind the names.
Stale(r) ==
  IF pc[r] \in {"build_rename", "rename", "find"} THEN Descendants(job[r].cat) ELSE Due(r)
ShowsNames(r) ==
  /\ \A d \in Lives \ Stale(r) : row[d].path = SlugPath(row[d].ids)
  /\ pc[r] \in {"create", "move", "rename"} => job[r].path = SlugPath(job[r].ids)

HasCategory == \A r \in Requests : pc[r] # "idle" => job[r].cat \in Categories

TreeFor(r) ==
  Rooted(Final(r), Lives) /\ EndsInParent(Final(r)) /\ KnowsTree(r) /\ ShowsNames(r)
TreeOK == \A r \in Requests : TreeFor(r)

Typed == TypeOK /\ HasCategory
IInv == Typed /\ (OneAtATime => TreeOK)
=============================================================================
