------------------------- MODULE StatusScreenProofs -------------------------
(***************************************************************************)
(* Safety of the status screen, for any layouts and contents, any tables   *)
(* of names and any current directory, as long as nobody uses git add      *)
(* --intent-to-add.                                                        *)
(***************************************************************************)
EXTENDS StatusScreen, SequenceTheorems, FiniteSetTheorems, WellFoundedInduction, TLAPS

-----------------------------------------------------------------------------
(* Numbers *)

(* A non-empty set of numbers has a least one, and Min is it. *)
LEMMA MinFacts ==
    ASSUME NEW T, T \subseteq Nat, T # {}
    PROVE  Min(T) \in T /\ \A y \in T : Min(T) <= y
  <1> DEFINE R == OpToRel(<, Nat)
  <1>1. IsWellFoundedOn(R, Nat)
    BY NatLessThanWellFounded
  <1>2. \A x, y \in Nat : <<x, y>> \in R <=> x < y
    BY DEF OpToRel
  <1> HIDE DEF R
  <1>3. PICK x \in T : \A y \in T : ~ (<<y, x>> \in R)
    BY <1>1, WFMin
  <1>4. \A y \in T : ~ (y < x)
    BY <1>2, <1>3
  <1>5. \A y \in T : x \in Int /\ y \in Int
    OBVIOUS
  <1>6. \E z \in T : \A y \in T : z =< y
    BY <1>4, <1>5
  <1> QED BY <1>6 DEF Min

-----------------------------------------------------------------------------
(* parse_status_z *)

(* What one step of the parser makes of what it expects. *)
ExpectsNext(fields, before, n) ==
    IF fields[n].code = Blank THEN before ELSE ~before /\ Leads(fields[n])

IsExpects(fields, g) ==
    g = [n \in 0 .. Len(fields) |->
            IF n = 0 THEN FALSE ELSE ExpectsNext(fields, g[n - 1], n)]

LEMMA ExpectsNextCases ==
    ASSUME NEW F, NEW b \in BOOLEAN, NEW n
    PROVE  /\ F[n].code = Blank => ExpectsNext(F, b, n) = b
           /\ F[n].code # Blank /\ b => ExpectsNext(F, b, n) = FALSE
           /\ F[n].code # Blank /\ ~b /\ Leads(F[n]) => ExpectsNext(F, b, n) = TRUE
           /\ F[n].code # Blank /\ ~b /\ ~Leads(F[n]) => ExpectsNext(F, b, n) = FALSE
  BY DEF ExpectsNext

(* The recursive function exists where some function solves its equation,  *)
(* and then it is that one.                                                *)
LEMMA ExpectsIs ==
    ASSUME NEW fields, Len(fields) \in Nat, NEW g, IsExpects(fields, g)
    PROVE  Expects(fields) = g
  <1> DEFINE F(e) == [n \in 0 .. Len(fields) |->
                         IF n = 0 THEN FALSE
                         ELSE IF fields[n].code = Blank THEN e[n - 1]
                         ELSE ~e[n - 1] /\ Leads(fields[n])]
             e == Expects(fields)
             N == Len(fields)
             differ == {n \in 0 .. N : e[n] # g[n]}
  <1>1. e = CHOOSE x : x = F(x)
    BY DEF Expects
  <1>2. g = F(g)
    BY DEF IsExpects, ExpectsNext
  <1>3. \E x : x = F(x)
    BY <1>2
  <1> HIDE DEF F
  <1>4. e = F(e)
    BY <1>1, <1>3
  <1> USE DEF F
  <1>5. e = [n \in 0 .. N |-> IF n = 0 THEN FALSE ELSE ExpectsNext(fields, e[n - 1], n)]
    BY <1>4 DEF ExpectsNext
  <1>6. g = [n \in 0 .. N |-> IF n = 0 THEN FALSE ELSE ExpectsNext(fields, g[n - 1], n)]
    BY DEF IsExpects
  <1> HIDE DEF e, F
  <1>7. differ = {}
    <2> SUFFICES ASSUME differ # {} PROVE FALSE
      OBVIOUS
    <2>1. differ \subseteq Nat
      OBVIOUS
    <2> DEFINE m == Min(differ)
    <2>2. m \in differ /\ \A y \in differ : m <= y
      BY <2>1, MinFacts
    <2> HIDE DEF m
    <2>3. m \in 0 .. N /\ m # 0
      BY <2>2, <1>5, <1>6
    <2>4. m - 1 \in 0 .. N /\ m - 1 \notin differ
      BY <2>2, <2>3
    <2>5. e[m - 1] = g[m - 1]
      BY <2>4
    <2>6. e[m] = ExpectsNext(fields, e[m - 1], m) /\ g[m] = ExpectsNext(fields, g[m - 1], m)
      BY <1>5, <1>6, <2>3
    <2> QED BY <2>2, <2>5, <2>6
  <1> HIDE DEF N
  <1>8. \A n \in 0 .. N : e[n] = g[n]
    BY <1>7
  <1> QED BY <1>5, <1>6, <1>8 DEF e

(* Fields laid out as git lays them: a rename is followed by its original  *)
(* path and by that only, so the parser keeps its place.                   *)
LEMMA ParseFacts ==
    ASSUME NEW n \in Nat, NEW F, Len(F) = 3 * n,
           \A k \in 1 .. n :
              /\ F[2 * k - 1].code # <<>>
              /\ F[2 * k - 1].code[1] # "C"
              /\ F[2 * k - 1].code[1] = "R" => F[2 * k].code = <<>>
              /\ F[2 * k - 1].code[1] # "R" => F[2 * k].code = Blank
              /\ F[2 * n + k].code \in {Blank, <<"?", "?">>}
    PROVE  ParseStatusZ(F) =
              {Entry(F[2 * k - 1].code[1], F[2 * k - 1].code[2], F[2 * k - 1].path,
                     IF F[2 * k - 1].code[1] = "R" THEN F[2 * k].path ELSE None) :
                  k \in {k \in 1 .. n : F[2 * k - 1].code # Blank}}
              \cup
              {Entry("?", "?", F[2 * n + k].path, None) :
                  k \in {k \in 1 .. n : F[2 * n + k].code # Blank}}
  <1> DEFINE N == 3 * n
             Lead(m) == \E k \in 1 .. n : m = 2 * k - 1 /\ F[m].code[1] = "R"
             g == [m \in 0 .. N |-> IF Lead(m) THEN TRUE ELSE FALSE]
             after(m) == {j \in m + 1 .. N : F[j].code # Blank}
             original(m) ==
                IF Leads(F[m]) /\ after(m) # {} THEN Original(F[Min(after(m))]) ELSE None
             entry(m) ==
                Entry(Read(F[m]).code[1], Read(F[m]).code[2], Read(F[m]).path, original(m))
             read == {m \in 1 .. N : ~g[m - 1] /\ Read(F[m]).code # Blank}
  <1>1. /\ Blank # <<>> /\ Blank[1] = " " /\ <<"?", "?">> # Blank
        /\ <<"?", "?">> # <<>> /\ <<"?", "?">>[1] = "?" /\ <<"?", "?">>[2] = "?"
    BY DEF Blank
  <1>3. ASSUME NEW m \in 1 .. N
        PROVE  \E k \in 1 .. n : m = 2 * k - 1 \/ m = 2 * k \/ m = 2 * n + k
    <2>1. CASE m > 2 * n
      <3>1. m - 2 * n \in 1 .. n /\ m = 2 * n + (m - 2 * n)
        BY <2>1
      <3> QED BY <3>1
    <2>2. CASE m <= 2 * n
      <3>1. PICK j \in Int : m = 2 * j \/ m = 2 * j - 1
        <4>1. m = 2 * ((m + 1) \div 2) \/ m = 2 * ((m + 1) \div 2) - 1
          OBVIOUS
        <4>2. (m + 1) \div 2 \in Int
          OBVIOUS
        <4> QED BY <4>1, <4>2
      <3>2. j \in 1 .. n
        BY <2>2, <3>1
      <3> QED BY <3>1, <3>2
    <2> QED BY <2>1, <2>2
  <1>4. ASSUME NEW k \in 1 .. n
        PROVE  /\ 2 * k - 1 \in 1 .. N /\ 2 * k \in 1 .. N /\ 2 * n + k \in 1 .. N
               /\ ~Lead(2 * k - 2) /\ ~Lead(2 * k) /\ ~Lead(2 * n + k - 1) /\ ~Lead(2 * n + k)
               /\ Lead(2 * k - 1) <=> F[2 * k - 1].code[1] = "R"
    OBVIOUS
  <1>5. IsExpects(F, g)
    <2>1. ASSUME NEW m \in 1 .. N
          PROVE  g[m] = ExpectsNext(F, g[m - 1], m)
      <3>1. /\ g[m] = IF Lead(m) THEN TRUE ELSE FALSE
            /\ g[m - 1] = IF Lead(m - 1) THEN TRUE ELSE FALSE
        <4>1. m \in 0 .. N /\ m - 1 \in 0 .. N
          OBVIOUS
        <4> HIDE DEF Lead, N
        <4> QED BY <4>1, Zenon
      <3>2. PICK k \in 1 .. n : m = 2 * k - 1 \/ m = 2 * k \/ m = 2 * n + k
        BY <1>3
      <3>3. CASE m = 2 * k - 1
        <4>1. ~Lead(m - 1)
          BY <1>4, <3>3
        <4>2. Lead(m) <=> F[m].code[1] = "R"
          BY <1>4, <3>3
        <4>3. F[m].code # <<>> /\ F[m].code[1] # "C"
          BY <3>3
        <4>4. Leads(F[m]) <=> F[m].code[1] = "R"
          BY <4>3 DEF Leads, Read
        <4>5. F[m].code = Blank => F[m].code[1] # "R"
          BY <1>1
        <4> HIDE DEF Lead, g
        <4> QED BY <3>1, <4>1, <4>2, <4>4, <4>5, ExpectsNextCases
      <3>4. CASE m = 2 * k
        <4>1. ~Lead(m)
          BY <1>4, <3>4
        <4>2. Lead(m - 1) <=> F[2 * k - 1].code[1] = "R"
          <5>1. m - 1 = 2 * k - 1
            BY <3>4
          <5> QED BY <1>4, <5>1
        <4>3. /\ Lead(m - 1) => F[m].code # Blank
              /\ ~Lead(m - 1) => F[m].code = Blank
          <5> HIDE DEF Lead
          <5> QED BY <1>1, <3>4, <4>2
        <4> HIDE DEF Lead, g
        <4> QED BY <3>1, <4>1, <4>3, ExpectsNextCases
      <3>5. CASE m = 2 * n + k
        <4>1. ~Lead(m) /\ ~Lead(m - 1)
          BY <1>4, <3>5
        <4>2. F[m].code = Blank \/ F[m].code = <<"?", "?">>
          BY <3>5
        <4>3. F[m].code # Blank => ~Leads(F[m])
          BY <1>1, <4>2 DEF Leads, Read
        <4> HIDE DEF Lead, g
        <4> QED BY <3>1, <4>1, <4>3, ExpectsNextCases
      <3> QED BY <3>2, <3>3, <3>4, <3>5
    <2>2. 0 \in 0 .. N /\ Len(F) = N
      OBVIOUS
    <2>3. g = [m \in 0 .. N |-> IF m = 0 THEN FALSE ELSE ExpectsNext(F, g[m - 1], m)]
      <3>1. \A m \in 0 .. N : m = 0 \/ m \in 1 .. N
        OBVIOUS
      <3>2. g = [m \in 0 .. N |-> g[m]]
        OBVIOUS
      <3>3. g[0] = FALSE
        <4>1. ~Lead(0)
          OBVIOUS
        <4> QED BY <2>2, <4>1
      <3> HIDE DEF g
      <3> QED BY <2>1, <2>2, <3>1, <3>2, <3>3
    <2> QED BY <2>2, <2>3 DEF IsExpects
  <1>6. Expects(F) = g
    <2>1. Len(F) \in Nat
      OBVIOUS
    <2> QED BY <1>5, <2>1, ExpectsIs
  <1>7. ParseStatusZ(F) = {entry(m) : m \in read}
    BY <1>6 DEF ParseStatusZ
  <1>8. ASSUME NEW m \in 1 .. N
        PROVE  m \in read <=> ~Lead(m - 1) /\ Read(F[m]).code # Blank
    <2>1. m - 1 \in 0 .. N
      OBVIOUS
    <2> HIDE DEF Lead, N
    <2>2. g[m - 1] = IF Lead(m - 1) THEN TRUE ELSE FALSE
      BY <2>1
    <2> QED BY <2>2
  <1>9. ASSUME NEW k \in 1 .. n
        PROVE  /\ 2 * k - 1 \in read <=> F[2 * k - 1].code # Blank
               /\ entry(2 * k - 1) =
                     Entry(F[2 * k - 1].code[1], F[2 * k - 1].code[2], F[2 * k - 1].path,
                           IF F[2 * k - 1].code[1] = "R" THEN F[2 * k].path ELSE None)
    <2> DEFINE m == 2 * k - 1
    <2>1. m \in 1 .. N /\ ~Lead(m - 1) /\ 2 * k \in 1 .. N /\ m \in Int /\ m + 1 = 2 * k
      BY <1>4
    <2>2. Read(F[m]) = F[m] /\ (Leads(F[m]) <=> F[m].code[1] = "R")
      BY DEF Read, Leads
    <2>3. ASSUME F[m].code[1] = "R"
          PROVE  original(m) = F[2 * k].path
      <3>1. F[2 * k].code = <<>> /\ F[2 * k].code # Blank
        BY <1>1, <2>3
      <3>2. 2 * k \in after(m) /\ \A j \in after(m) : 2 * k <= j
        BY <2>1, <3>1
      <3>3. after(m) \subseteq Nat /\ after(m) # {}
        BY <2>1, <3>2
      <3>4. Min(after(m)) = 2 * k
        <4>1. Min(after(m)) \in after(m) /\ \A j \in after(m) : Min(after(m)) <= j
          BY <3>3, MinFacts
        <4>2. Min(after(m)) \in Int /\ Min(after(m)) <= 2 * k /\ 2 * k <= Min(after(m))
          BY <3>2, <3>3, <4>1
        <4> QED BY <2>1, <4>2
      <3>5. Original(F[2 * k]) = F[2 * k].path
        BY <3>1 DEF Original
      <3> QED BY <2>2, <2>3, <3>3, <3>4, <3>5
    <2>4. ASSUME F[m].code[1] # "R"
          PROVE  original(m) = None
      BY <2>2, <2>4
    <2>5. m \in read <=> F[m].code # Blank
      BY <1>8, <2>1, <2>2
    <2> HIDE DEF m, original
    <2>6. original(m) = IF F[m].code[1] = "R" THEN F[2 * k].path ELSE None
      BY <2>3, <2>4
    <2>7. entry(m) = Entry(F[m].code[1], F[m].code[2], F[m].path,
                           IF F[m].code[1] = "R" THEN F[2 * k].path ELSE None)
      BY <2>2, <2>6
    <2> QED BY <2>5, <2>7 DEF m
  <1>10. ASSUME NEW k \in 1 .. n
         PROVE  2 * k \notin read
    <2>1. 2 * k \in 1 .. N /\ (Lead(2 * k - 1) <=> F[2 * k - 1].code[1] = "R")
      BY <1>4
    <2>2. F[2 * k - 1].code[1] # "R" => Read(F[2 * k]).code = Blank
      BY <1>1 DEF Read
    <2> HIDE DEF Lead, read
    <2> QED BY <1>8, <2>1, <2>2
  <1>11. ASSUME NEW k \in 1 .. n
         PROVE  /\ 2 * n + k \in read <=> F[2 * n + k].code # Blank
                /\ F[2 * n + k].code # Blank =>
                      entry(2 * n + k) = Entry("?", "?", F[2 * n + k].path, None)
    <2> DEFINE m == 2 * n + k
    <2>1. m \in 1 .. N /\ ~Lead(m - 1)
      BY <1>4
    <2>2. F[m].code \in {Blank, <<"?", "?">>} /\ Read(F[m]) = F[m]
      BY <1>1 DEF Read
    <2>3. F[m].code # Blank => ~Leads(F[m]) /\ F[m].code[1] = "?" /\ F[m].code[2] = "?"
      BY <1>1, <2>2 DEF Leads
    <2>4. m \in read <=> F[m].code # Blank
      <3> HIDE DEF Lead, read, m
      <3> QED BY <1>8, <2>1, <2>2
    <2>5. F[m].code # Blank => original(m) = None
      BY <2>3
    <2> HIDE DEF m, original
    <2>6. F[m].code # Blank => entry(m) = Entry("?", "?", F[m].path, None)
      BY <2>2, <2>3, <2>5
    <2> QED BY <2>4, <2>6 DEF m
  <1>12. read \subseteq 1 .. N
    OBVIOUS
  <1> DEFINE tracked(k) ==
                Entry(F[2 * k - 1].code[1], F[2 * k - 1].code[2], F[2 * k - 1].path,
                      IF F[2 * k - 1].code[1] = "R" THEN F[2 * k].path ELSE None)
             untracked(k) == Entry("?", "?", F[2 * n + k].path, None)
             T == {k \in 1 .. n : F[2 * k - 1].code # Blank}
             U == {k \in 1 .. n : F[2 * n + k].code # Blank}
  <1>13. \A k \in T : 2 * k - 1 \in read /\ entry(2 * k - 1) = tracked(k)
    BY <1>9
  <1>14. \A k \in U : 2 * n + k \in read /\ entry(2 * n + k) = untracked(k)
    BY <1>11
  <1>15. \A m \in read : (\E k \in T : m = 2 * k - 1) \/ (\E k \in U : m = 2 * n + k)
    <2> SUFFICES ASSUME NEW m \in read
                 PROVE  (\E k \in T : m = 2 * k - 1) \/ (\E k \in U : m = 2 * n + k)
      OBVIOUS
    <2>1. PICK k \in 1 .. n : m = 2 * k - 1 \/ m = 2 * k \/ m = 2 * n + k
      BY <1>3, <1>12
    <2> HIDE DEF read
    <2> QED BY <1>9, <1>10, <1>11, <2>1
  <1> HIDE DEF read, entry, tracked, untracked, T, U
  <1>16. {entry(m) : m \in read} \subseteq {tracked(k) : k \in T} \cup {untracked(k) : k \in U}
    BY <1>13, <1>14, <1>15
  <1>17. {tracked(k) : k \in T} \subseteq {entry(m) : m \in read}
    BY <1>13
  <1>18. {untracked(k) : k \in U} \subseteq {entry(m) : m \in read}
    BY <1>14
  <1> QED BY <1>7, <1>16, <1>17, <1>18, Zenon DEF tracked, untracked, T, U

-----------------------------------------------------------------------------
(* The trees and what git says of them *)

(* Without git add --intent-to-add no path is in the index without a       *)
(* content.                                                                *)
Trees ==
    /\ order \in Layouts
    /\ head \in Tree /\ work \in Tree
    /\ index \in [Paths -> AllContents \cup {Absent} \cup DOMAIN Conflict]
    /\ \A p \in Paths : index[p] \in Contents(p) \cup {Absent} \cup DOMAIN Conflict

LEMMA PathFacts ==
    ASSUME order \in Layouts
    PROVE  /\ Len(order) \in Nat /\ DOMAIN order = 1 .. Len(order)
           /\ Paths = {order[k] : k \in 1 .. Len(order)}
           /\ Paths \subseteq Seq(STRING)
           /\ None \notin Paths
           /\ \A p \in Paths : /\ Absent \notin Contents(p) /\ Intent \notin Contents(p)
                               /\ Contents(p) \cap DOMAIN Conflict = {}
  <1>1. order \in Seq(Seq(STRING))
    BY ScreenAssumption
  <1>2. Len(order) \in Nat /\ DOMAIN order = 1 .. Len(order)
    BY <1>1
  <1>3. Paths = {order[k] : k \in 1 .. Len(order)}
    BY <1>2 DEF Paths, Range
  <1>4. Paths \subseteq Seq(STRING)
    BY <1>1, <1>3, ElementOfSeq
  <1>5. \A p \in Paths : p # None /\ Contents(p) \cap ({Absent, Intent} \cup DOMAIN Conflict) = {}
    BY ScreenAssumption DEF Paths
  <1> QED BY <1>2, <1>3, <1>4, <1>5

LEMMA ConflictFacts ==
    /\ DOMAIN Conflict = {"UU", "AA", "DD"}
    /\ \A c \in DOMAIN Conflict :
          /\ Conflict[c] = <<Conflict[c][1], Conflict[c][2]>>
          /\ Conflict[c] # Blank /\ Conflict[c][1] \in {"U", "A", "D"}
          /\ \/ "U" \in {Conflict[c][1], Conflict[c][2]}
             \/ Conflict[c] \in {<<"A", "A">>, <<"D", "D">>}
    /\ Absent \notin DOMAIN Conflict /\ Intent \notin DOMAIN Conflict
  <1>1. DOMAIN Conflict = {"UU", "AA", "DD"}
    BY DEF Conflict
  <1>2. Conflict["UU"] = <<"U", "U">> /\ Conflict["AA"] = <<"A", "A">> /\ Conflict["DD"] = <<"D", "D">>
    BY DEF Conflict
  <1>3. ASSUME NEW c \in DOMAIN Conflict
        PROVE  /\ Conflict[c] = <<Conflict[c][1], Conflict[c][2]>>
               /\ Conflict[c] # Blank /\ Conflict[c][1] \in {"U", "A", "D"}
               /\ \/ "U" \in {Conflict[c][1], Conflict[c][2]}
                  \/ Conflict[c] \in {<<"A", "A">>, <<"D", "D">>}
    <2>1. Conflict[c] \in {<<"U", "U">>, <<"A", "A">>, <<"D", "D">>}
      BY <1>1, <1>2
    <2> DEFINE v == Conflict[c]
    <2> HIDE DEF v
    <2>2. v \in {<<"U", "U">>, <<"A", "A">>, <<"D", "D">>}
      BY <2>1 DEF v
    <2>3. CASE v = <<"U", "U">>
      BY <2>3 DEF v, Blank
    <2>4. CASE v = <<"A", "A">>
      BY <2>4 DEF v, Blank
    <2>5. CASE v = <<"D", "D">>
      BY <2>5 DEF v, Blank
    <2> QED BY <2>2, <2>3, <2>4, <2>5
  <1>4. Absent \notin DOMAIN Conflict /\ Intent \notin DOMAIN Conflict
    BY <1>1 DEF Absent, Intent
  <1> QED BY <1>1, <1>3, <1>4

(* A path in the index holds a content, is unmerged, or is not there. *)
LEMMA TreeFacts ==
    ASSUME Trees, NEW p \in Paths
    PROVE  /\ head[p] \in Contents(p) \cup {Absent} /\ work[p] \in Contents(p) \cup {Absent}
           /\ Unmerged(p) \/ Holds(p) \/ index[p] = Absent
           /\ ~(Unmerged(p) /\ Holds(p)) /\ ~(Unmerged(p) /\ index[p] = Absent)
           /\ ~(Holds(p) /\ index[p] = Absent)
           /\ index[p] # Intent
  <1>1. head[p] \in Contents(p) \cup {Absent} /\ work[p] \in Contents(p) \cup {Absent}
    BY DEF Trees, Tree
  <1>2. index[p] \in Contents(p) \cup {Absent} \cup DOMAIN Conflict
    BY DEF Trees
  <1>3. Absent # Intent
    BY DEF Absent, Intent
  <1>4. /\ Absent \notin Contents(p) /\ Intent \notin Contents(p)
        /\ Contents(p) \cap DOMAIN Conflict = {}
    BY PathFacts DEF Trees
  <1> QED BY <1>1, <1>2, <1>3, <1>4, ConflictFacts DEF Unmerged, Holds

LEMMA NoWorkRenames ==
    ASSUME Trees PROVE WorkRenames = {}
  <1>1. {p \in Paths : index[p] = Intent /\ work[p] # Absent} = {}
    BY TreeFacts
  <1> QED BY <1>1 DEF WorkRenames, Renames

(* What git takes for a rename: a path that is new in the index holds what *)
(* one that is gone from it held.                                          *)
LEMMA RenameFacts ==
    /\ \A p, q : <<p, q>> \in IndexRenames =>
          /\ p \in Paths /\ head[p] # Absent /\ index[p] = Absent
          /\ q \in Paths /\ head[q] = Absent /\ Holds(q)
    /\ \A q : Comes(q, IndexRenames) => <<Origin(q, IndexRenames), q>> \in IndexRenames
    /\ \A p : Goes(p, IndexRenames) =>
          \E q \in Paths : Comes(q, IndexRenames) /\ Origin(q, IndexRenames) = p
  <1> DEFINE came == {p \in Paths : head[p] = Absent /\ Holds(p)}
             went == {p \in Paths : head[p] # Absent /\ index[p] = Absent}
             pairs == {r \in went \X came : head[r[1]] = index[r[2]]}
             first(q) == CHOOSE p \in went : <<p, q>> \in pairs
  <1>1. IndexRenames = {r \in pairs : /\ r[1] = first(r[2])
                                      /\ r[2] = CHOOSE q \in came : <<r[1], q>> \in pairs}
    BY DEF IndexRenames, Renames
  <1>2. \A p, q : <<p, q>> \in IndexRenames =>
           p \in went /\ q \in came /\ p = first(q)
    <2> HIDE DEF first
    <2> QED BY <1>1
  <1>3. \A q : Comes(q, IndexRenames) => <<Origin(q, IndexRenames), q>> \in IndexRenames
    BY DEF Comes, Origin
  <1>4. ASSUME NEW p, Goes(p, IndexRenames)
        PROVE  \E q \in Paths : Comes(q, IndexRenames) /\ Origin(q, IndexRenames) = p
    <2>1. PICK q \in Paths : <<p, q>> \in IndexRenames
      BY <1>4 DEF Goes
    <2>2. Comes(q, IndexRenames)
      BY <1>2, <2>1 DEF Comes
    <2>3. <<Origin(q, IndexRenames), q>> \in IndexRenames
      BY <1>3, <2>2
    <2>4. Origin(q, IndexRenames) = p
      <3> HIDE DEF first
      <3> QED BY <1>2, <2>1, <2>3
    <2> QED BY <2>2, <2>4
  <1> QED BY <1>2, <1>3, <1>4

LEMMA FieldFacts ==
    ASSUME NEW x, NEW y, NEW p
    PROVE  /\ Field(x, y, p).code = <<x, y>> /\ Field(x, y, p).path = p
           /\ Bare(p).code = <<>> /\ Bare(p).path = p
  BY DEF Field, Bare

LEMMA BlankFacts ==
    ASSUME NEW p
    PROVE  /\ Field(" ", " ", p).code = Blank /\ Field(" ", " ", p).path = p
           /\ Field("?", "?", p).code = <<"?", "?">> /\ Field("?", "?", p).path = p
  BY DEF Field, Blank

CodeOf(p) == Tracked(p, IndexRenames, {}).code

(* The code of a path, by what its three trees hold. *)
LEMMA CodeFacts ==
    ASSUME Trees, NEW p \in Paths
    PROVE  /\ CodeOf(p) = <<CodeOf(p)[1], CodeOf(p)[2]>>
           /\ CodeOf(p)[1] = "R" <=> Comes(p, IndexRenames)
           /\ Comes(p, IndexRenames) => head[p] = Absent /\ Holds(p)
           /\ Goes(p, IndexRenames) => head[p] # Absent /\ index[p] = Absent
           /\ Unmerged(p) => CodeOf(p) = Conflict[index[p]]
           /\ index[p] = Absent /\ head[p] # Absent /\ ~Goes(p, IndexRenames) =>
                 CodeOf(p)[1] = "D"
           /\ index[p] = Absent /\ (head[p] = Absent \/ Goes(p, IndexRenames)) =>
                 CodeOf(p)[1] = " "
           /\ index[p] = Absent => CodeOf(p)[2] = " "
           /\ Holds(p) /\ head[p] = Absent => CodeOf(p)[1] \in {"A", "R"}
           /\ Holds(p) /\ head[p] # Absent /\ index[p] # head[p] => CodeOf(p)[1] = "M"
           /\ Holds(p) /\ head[p] # Absent /\ index[p] = head[p] => CodeOf(p)[1] = " "
           /\ Holds(p) /\ work[p] = Absent => CodeOf(p)[2] = "D"
           /\ Holds(p) /\ work[p] # Absent /\ work[p] # index[p] => CodeOf(p)[2] = "M"
           /\ Holds(p) /\ work[p] = index[p] => CodeOf(p)[2] = " "
  <1>1. /\ Comes(p, IndexRenames) => head[p] = Absent /\ Holds(p)
        /\ Goes(p, IndexRenames) => head[p] # Absent /\ index[p] = Absent
    BY RenameFacts DEF Comes, Goes
  <1>2. /\ Unmerged(p) \/ Holds(p) \/ index[p] = Absent
        /\ ~(Unmerged(p) /\ Holds(p)) /\ ~(Unmerged(p) /\ index[p] = Absent)
        /\ ~(Holds(p) /\ index[p] = Absent) /\ index[p] # Intent
    BY TreeFacts
  <1>3. ~Comes(p, {}) /\ ~Goes(p, {})
    BY DEF Comes, Goes
  <1>4. CASE Unmerged(p)
    <2>1. Conflict[index[p]] = <<Conflict[index[p]][1], Conflict[index[p]][2]>>
          /\ Conflict[index[p]][1] \in {"U", "A", "D"}
      BY <1>4, ConflictFacts DEF Unmerged
    <2>2. CodeOf(p) = Conflict[index[p]]
      BY <1>4, <2>1 DEF CodeOf, Tracked, Field
    <2> QED BY <1>1, <1>2, <1>4, <2>1, <2>2
  <1>5. CASE ~Unmerged(p)
    <2> DEFINE x == IndexCode(p, IndexRenames)
               y == WorkCode(p, {})
    <2>1. CodeOf(p) = <<x, y>>
      BY <1>5 DEF CodeOf, Tracked, Field
    <2>2. /\ Comes(p, IndexRenames) => x = "R"
          /\ index[p] = Absent /\ head[p] # Absent /\ ~Goes(p, IndexRenames) => x = "D"
          /\ index[p] = Absent /\ (head[p] = Absent \/ Goes(p, IndexRenames)) => x = " "
          /\ Holds(p) /\ head[p] = Absent /\ ~Comes(p, IndexRenames) => x = "A"
          /\ Holds(p) /\ head[p] # Absent /\ index[p] # head[p] => x = "M"
          /\ Holds(p) /\ head[p] # Absent /\ index[p] = head[p] => x = " "
      BY <1>1, <1>2 DEF IndexCode
    <2>3. /\ index[p] = Absent => y = " "
          /\ Holds(p) /\ work[p] = Absent => y = "D"
          /\ Holds(p) /\ work[p] # Absent /\ work[p] # index[p] => y = "M"
          /\ Holds(p) /\ work[p] = index[p] => y = " "
      BY <1>2, <1>3 DEF WorkCode
    <2> HIDE DEF x, y
    <2>4. CodeOf(p)[1] = x /\ CodeOf(p)[2] = y
      BY <2>1
    <2> QED BY <1>1, <1>2, <1>5, <2>1, <2>2, <2>3, <2>4
  <1> QED BY <1>4, <1>5

TrackedEntry(p) ==
    Entry(CodeOf(p)[1], CodeOf(p)[2], p,
          IF CodeOf(p)[1] = "R" THEN Origin(p, IndexRenames) ELSE None)

UntrackedEntry(p) == Entry("?", "?", p, None)

IsNew(p) == index[p] = Absent /\ work[p] # Absent /\ p \notin IgnoredPaths

(* The entries the parser reads off git's fields. *)
LEMMA Entries ==
    ASSUME Trees
    PROVE  ParseStatusZ(GitStatus) =
              {TrackedEntry(p) : p \in {p \in Paths : CodeOf(p) # Blank}}
              \cup {UntrackedEntry(p) : p \in {p \in Paths : IsNew(p)}}
  <1> DEFINE n == Len(order)
             F == GitStatus
  <1>1. n \in Nat /\ Paths = {order[k] : k \in 1 .. n}
    BY PathFacts DEF Trees
  <1>2. F = [i \in 1 .. 3 * n |->
               IF i > 2 * n THEN Untracked(order[i - 2 * n])
               ELSE IF i % 2 = 1 THEN Tracked(order[(i + 1) \div 2], IndexRenames, {})
               ELSE Renamed(order[i \div 2], IndexRenames, {})]
    BY NoWorkRenames DEF GitStatus
  <1> HIDE DEF n, F
  <1>3. Len(F) = 3 * n
    BY <1>1, <1>2
  <1>4. ASSUME NEW k \in 1 .. n
        PROVE  /\ F[2 * k - 1] = Tracked(order[k], IndexRenames, {})
               /\ F[2 * k] = Renamed(order[k], IndexRenames, {})
               /\ F[2 * n + k] = Untracked(order[k])
    <2>1. /\ 2 * k - 1 \in 1 .. 3 * n /\ 2 * k \in 1 .. 3 * n /\ 2 * n + k \in 1 .. 3 * n
          /\ ~(2 * k - 1 > 2 * n) /\ ~(2 * k > 2 * n) /\ 2 * n + k > 2 * n
          /\ (2 * k - 1) % 2 = 1 /\ (2 * k) % 2 # 1
          /\ ((2 * k - 1) + 1) \div 2 = k /\ (2 * k) \div 2 = k /\ (2 * n + k) - 2 * n = k
      BY <1>1
    <2> QED BY <1>2, <2>1
  <1>5. ASSUME NEW k \in 1 .. n
        PROVE  /\ order[k] \in Paths
               /\ F[2 * k - 1].code = CodeOf(order[k]) /\ F[2 * k - 1].path = order[k]
               /\ F[2 * k - 1].code # <<>> /\ F[2 * k - 1].code[1] # "C"
               /\ F[2 * k - 1].code[1] = "R" =>
                     F[2 * k].code = <<>> /\ F[2 * k].path = Origin(order[k], IndexRenames)
               /\ F[2 * k - 1].code[1] # "R" => F[2 * k].code = Blank
               /\ F[2 * n + k].code \in {Blank, <<"?", "?">>} /\ F[2 * n + k].path = order[k]
               /\ F[2 * n + k].code # Blank <=> IsNew(order[k])
    <2> DEFINE p == order[k]
    <2>1. p \in Paths
      BY <1>1
    <2> HIDE DEF p
    <2>2. F[2 * k - 1].code = CodeOf(p) /\ F[2 * k - 1].path = p
      BY <1>4, FieldFacts DEF p, CodeOf, Tracked
    <2>3. CodeOf(p) # <<>> /\ CodeOf(p)[1] # "C"
      <3>1. CodeOf(p) = <<CodeOf(p)[1], CodeOf(p)[2]>>
        BY <2>1, CodeFacts
      <3>2. CodeOf(p)[1] # "C"
        BY <2>1, CodeFacts, TreeFacts, ConflictFacts DEF Unmerged
      <3> QED BY <3>1, <3>2
    <2>4. CodeOf(p)[1] = "R" <=> Comes(p, IndexRenames)
      BY <2>1, CodeFacts
    <2>5. ~Comes(p, {})
      BY DEF Comes
    <2>6. F[2 * k] = Renamed(p, IndexRenames, {})
      BY <1>4 DEF p
    <2>7. /\ Comes(p, IndexRenames) =>
                F[2 * k].code = <<>> /\ F[2 * k].path = Origin(p, IndexRenames)
          /\ ~Comes(p, IndexRenames) => F[2 * k].code = Blank
      <3>1. Comes(p, IndexRenames) => F[2 * k] = Bare(Origin(p, IndexRenames))
        BY <2>6, Zenon DEF Renamed
      <3>2. ~Comes(p, IndexRenames) => F[2 * k] = Field(" ", " ", p)
        BY <2>5, <2>6, Zenon DEF Renamed
      <3>3. /\ Field(" ", " ", p).code = Blank
            /\ Bare(Origin(p, IndexRenames)).code = <<>>
            /\ Bare(Origin(p, IndexRenames)).path = Origin(p, IndexRenames)
        BY FieldFacts, BlankFacts
      <3> QED BY <3>1, <3>2, <3>3, Zenon
    <2>8. F[2 * n + k] = Untracked(p)
      BY <1>4 DEF p
    <2>9. /\ F[2 * n + k].code \in {Blank, <<"?", "?">>} /\ F[2 * n + k].path = p
          /\ F[2 * n + k].code # Blank <=> IsNew(p)
      <3>1. <<"?", "?">> # <<" ", " ">>
        OBVIOUS
      <3>2. IsNew(p) => F[2 * n + k] = Field("?", "?", p)
        BY <2>8 DEF Untracked, IsNew
      <3>3. ~IsNew(p) => F[2 * n + k] = Field(" ", " ", p)
        BY <2>8 DEF Untracked, IsNew
      <3>4. /\ Field(" ", " ", p).code = Blank /\ Field(" ", " ", p).path = p
            /\ Field("?", "?", p).code = <<"?", "?">> /\ Field("?", "?", p).path = p
        BY BlankFacts, Zenon
      <3>5. <<"?", "?">> # Blank
        BY <3>1 DEF Blank
      <3>6. CASE IsNew(p)
        BY <3>2, <3>4, <3>5, <3>6, Zenon
      <3>7. CASE ~IsNew(p)
        BY <3>3, <3>4, <3>7, Zenon
      <3> QED BY <3>6, <3>7, Zenon
    <2> QED BY <2>1, <2>2, <2>3, <2>4, <2>7, <2>9 DEF p
  <1>6. ParseStatusZ(F) =
           {Entry(F[2 * k - 1].code[1], F[2 * k - 1].code[2], F[2 * k - 1].path,
                  IF F[2 * k - 1].code[1] = "R" THEN F[2 * k].path ELSE None) :
               k \in {k \in 1 .. n : F[2 * k - 1].code # Blank}}
           \cup
           {Entry("?", "?", F[2 * n + k].path, None) :
               k \in {k \in 1 .. n : F[2 * n + k].code # Blank}}
    <2>1. \A k \in 1 .. n :
             /\ F[2 * k - 1].code # <<>>
             /\ F[2 * k - 1].code[1] # "C"
             /\ F[2 * k - 1].code[1] = "R" => F[2 * k].code = <<>>
             /\ F[2 * k - 1].code[1] # "R" => F[2 * k].code = Blank
             /\ F[2 * n + k].code \in {Blank, <<"?", "?">>}
      BY <1>5
    <2> QED BY <1>1, <1>3, <2>1, ParseFacts
  <1> DEFINE tracked(k) ==
                Entry(F[2 * k - 1].code[1], F[2 * k - 1].code[2], F[2 * k - 1].path,
                      IF F[2 * k - 1].code[1] = "R" THEN F[2 * k].path ELSE None)
             untracked(k) == Entry("?", "?", F[2 * n + k].path, None)
             T == {k \in 1 .. n : F[2 * k - 1].code # Blank}
             U == {k \in 1 .. n : F[2 * n + k].code # Blank}
             V == {p \in Paths : CodeOf(p) # Blank}
             W == {p \in Paths : IsNew(p)}
  <1>7. ASSUME NEW k \in 1 .. n
        PROVE  /\ k \in T <=> order[k] \in V
               /\ k \in U <=> order[k] \in W
               /\ tracked(k) = TrackedEntry(order[k])
               /\ untracked(k) = UntrackedEntry(order[k])
    BY <1>5 DEF TrackedEntry, UntrackedEntry
  <1>8. T \subseteq 1 .. n /\ U \subseteq 1 .. n /\ V \subseteq Paths /\ W \subseteq Paths
    OBVIOUS
  <1> HIDE DEF tracked, untracked, T, U, V, W
  <1>9. {tracked(k) : k \in T} = {TrackedEntry(p) : p \in V}
    BY <1>1, <1>7, <1>8
  <1>10. {untracked(k) : k \in U} = {UntrackedEntry(p) : p \in W}
    BY <1>1, <1>7, <1>8
  <1> QED BY <1>6, <1>9, <1>10, Zenon DEF tracked, untracked, T, U, V, W, F

(* The entries, one by one. *)
LEMMA EntryFacts ==
    ASSUME Trees, NEW e \in ParseStatusZ(GitStatus)
    PROVE  \/ \E p \in Paths : CodeOf(p) # Blank /\ e = TrackedEntry(p)
           \/ \E p \in Paths : IsNew(p) /\ e = UntrackedEntry(p)
  <1>1. e \in {TrackedEntry(p) : p \in {p \in Paths : CodeOf(p) # Blank}}
              \cup {UntrackedEntry(p) : p \in {p \in Paths : IsNew(p)}}
    BY Entries, Zenon
  <1> QED BY <1>1, Zenon

LEMMA IsEntry ==
    ASSUME Trees, NEW p \in Paths
    PROVE  /\ CodeOf(p) # Blank => TrackedEntry(p) \in ParseStatusZ(GitStatus)
           /\ IsNew(p) => UntrackedEntry(p) \in ParseStatusZ(GitStatus)
  BY Entries, Zenon

LEMMA EntryFields ==
    ASSUME NEW p
    PROVE  /\ TrackedEntry(p).index = CodeOf(p)[1] /\ TrackedEntry(p).worktree = CodeOf(p)[2]
           /\ TrackedEntry(p).path = p
           /\ CodeOf(p)[1] = "R" => TrackedEntry(p).original_path = Origin(p, IndexRenames)
           /\ CodeOf(p)[1] # "R" => TrackedEntry(p).original_path = None
           /\ UntrackedEntry(p).index = "?" /\ UntrackedEntry(p).worktree = "?"
           /\ UntrackedEntry(p).path = p /\ UntrackedEntry(p).original_path = None
  BY DEF TrackedEntry, UntrackedEntry, Entry

LEMMA EntryPaths ==
    ASSUME Trees
    PROVE  UNION {PathsOf(e) : e \in ParseStatusZ(GitStatus)} \subseteq Paths
  <1>1. ASSUME NEW e \in ParseStatusZ(GitStatus)
        PROVE  PathsOf(e) \subseteq Paths
    <2>1. CASE \E p \in Paths : IsNew(p) /\ e = UntrackedEntry(p)
      BY <2>1, EntryFields DEF PathsOf
    <2>2. CASE \E p \in Paths : CodeOf(p) # Blank /\ e = TrackedEntry(p)
      <3>1. PICK p \in Paths : e = TrackedEntry(p)
        BY <2>2
      <3>2. CodeOf(p)[1] = "R" => Origin(p, IndexRenames) \in Paths
        BY CodeFacts, RenameFacts
      <3> QED BY <3>1, <3>2, EntryFields DEF PathsOf
    <2> QED BY <2>1, <2>2, EntryFacts
  <1> QED BY <1>1

-----------------------------------------------------------------------------
(* The trees, whatever is done *)

LEMMA SameOrder ==
    ASSUME order' = order
    PROVE  Paths' = Paths /\ AllContents' = AllContents /\ Tree' = Tree
  BY DEF Paths, AllContents, Tree

LEMMA TreesInit == Init => Trees
  <1> SUFFICES ASSUME Init PROVE Trees
    OBVIOUS
  <1>1. order \in Layouts /\ head \in Tree /\ index = head /\ work = head
    BY DEF Init
  <1>2. head \in [Paths -> AllContents \cup {Absent}] /\ \A p \in Paths : head[p] \in Contents(p) \cup {Absent}
    BY <1>1 DEF Tree
  <1> QED BY <1>1, <1>2 DEF Trees

LEMMA TreesStep == Trees /\ [Work]_vars => Trees'
  <1> SUFFICES ASSUME Trees, [Work]_vars PROVE Trees'
    OBVIOUS
  <1>1. /\ order \in Layouts /\ head \in Tree /\ work \in Tree
        /\ index \in [Paths -> AllContents \cup {Absent} \cup DOMAIN Conflict]
        /\ \A p \in Paths : index[p] \in Contents(p) \cup {Absent} \cup DOMAIN Conflict
    BY DEF Trees
  <1>2. \A t \in Tree : /\ t \in [Paths -> AllContents \cup {Absent}]
                        /\ \A p \in Paths : t[p] \in Contents(p) \cup {Absent}
    BY DEF Tree
  <1>3. \A p \in Paths : Contents(p) \subseteq AllContents
    BY DEF AllContents
  <1>4. \A t \in [Paths -> AllContents \cup {Absent}] :
           (\A p \in Paths : t[p] \in Contents(p) \cup {Absent}) => t \in Tree
    BY DEF Tree
  <1>5. ASSUME order' = order, work' \in Tree, head' \in Tree,
               index' \in [Paths -> AllContents \cup {Absent} \cup DOMAIN Conflict],
               \A p \in Paths : index'[p] \in Contents(p) \cup {Absent} \cup DOMAIN Conflict
        PROVE  Trees'
    BY <1>1, <1>5, SameOrder DEF Trees
  <1> HIDE DEF Trees
  <1>6. ASSUME NEW p \in Paths, NEW content \in Contents(p) \cup {Absent}, Edit(p, content)
        PROVE  Trees'
    <2>1. /\ work' = [work EXCEPT ![p] = content]
          /\ order' = order /\ head' = head /\ index' = index
      BY <1>6 DEF Edit
    <2>2. work' \in Tree
      <3> DEFINE t == [work EXCEPT ![p] = content]
      <3>1. /\ work \in [Paths -> AllContents \cup {Absent}]
            /\ \A q \in Paths : work[q] \in Contents(q) \cup {Absent}
        BY <1>1, <1>2
      <3>2. content \in AllContents \cup {Absent}
        BY <1>3
      <3>3. t \in [Paths -> AllContents \cup {Absent}]
        BY <3>1, <3>2
      <3>4. \A q \in Paths : t[q] \in Contents(q) \cup {Absent}
        BY <3>1
      <3> HIDE DEF t
      <3>5. t \in Tree
        BY <1>4, <3>3, <3>4
      <3> QED BY <2>1, <3>5 DEF t
    <2> QED BY <1>1, <1>5, <2>1, <2>2
  <1>7. ASSUME NEW p \in Paths, NEW v \in Contents(p) \cup {Absent} \cup DOMAIN Conflict,
               index' = [index EXCEPT ![p] = v], UNCHANGED <<order, head, work>>
        PROVE  Trees'
    <2>1. v \in AllContents \cup {Absent} \cup DOMAIN Conflict
      BY <1>3
    <2>2. index' \in [Paths -> AllContents \cup {Absent} \cup DOMAIN Conflict]
      BY <1>1, <1>7, <2>1
    <2>3. \A q \in Paths : index'[q] \in Contents(q) \cup {Absent} \cup DOMAIN Conflict
      BY <1>1, <1>7
    <2> QED BY <1>1, <1>5, <1>7, <2>2, <2>3
  <1>8. ASSUME NEW p \in Paths, Stage(p) \/ Unstage(p)
        PROVE  Trees'
    <2>1. work[p] \in Contents(p) \cup {Absent} /\ head[p] \in Contents(p) \cup {Absent}
      BY <1>1, <1>2
    <2> QED BY <1>7, <1>8, <2>1 DEF Stage, Unstage
  <1>9. ASSUME NEW p \in Paths, NEW code \in DOMAIN Conflict, MergeConflict(p, code)
        PROVE  Trees'
    BY <1>7, <1>9 DEF MergeConflict
  <1>10. ASSUME StageAll
         PROVE  Trees'
    <2>1. index' = AllStaged /\ order' = order /\ head' = head /\ work' = work
      BY <1>10 DEF StageAll
    <2>2. \A p \in Paths : AllStaged[p] \in Contents(p) \cup {Absent} /\ AllStaged[p] \in AllContents \cup {Absent}
      BY <1>1, <1>2, <1>3 DEF AllStaged
    <2>3. AllStaged = [p \in Paths |-> AllStaged[p]]
      BY DEF AllStaged
    <2> QED BY <1>1, <1>5, <2>1, <2>2, <2>3
  <1>11. ASSUME Commit
         PROVE  Trees'
    <2> DEFINE t == [p \in Paths |-> IF index[p] = Intent THEN Absent ELSE index[p]]
    <2>1. head' = t /\ order' = order /\ index' = index /\ work' = work
      BY <1>11 DEF Commit
    <2>2. ASSUME NEW p \in Paths
          PROVE  t[p] \in Contents(p) \cup {Absent} /\ t[p] \in AllContents \cup {Absent}
      <3>1. index[p] \in Contents(p) \cup {Absent} \cup DOMAIN Conflict /\ ~Unmerged(p)
        BY <1>1, <1>11 DEF Commit
      <3>2. t[p] = Absent \/ t[p] = index[p]
        OBVIOUS
      <3> HIDE DEF t
      <3> QED BY <1>3, <3>1, <3>2 DEF Unmerged
    <2>3. t \in [Paths -> AllContents \cup {Absent}]
      BY <2>2
    <2> HIDE DEF t
    <2>4. t \in Tree
      BY <1>4, <2>2, <2>3
    <2> QED BY <1>1, <1>5, <2>1, <2>4
  <1>12. ASSUME UNCHANGED vars
         PROVE  Trees'
    BY <1>1, <1>5, <1>12 DEF vars, trees
  <1> QED BY <1>6, <1>8, <1>9, <1>10, <1>11, <1>12 DEF Work

LEMMA TreesInvariant == Spec => []Trees
  BY TreesInit, TreesStep, PTL DEF Spec

(* The trees hold what git trees hold, nothing unmerged is committed, and  *)
(* what the script reads as paths are paths.                               *)
THEOREM TypeCorrect == Spec => []TypeOK
  <1>1. Trees => TypeOK
    BY EntryPaths DEF Trees, TypeOK
  <1> QED BY <1>1, TreesInvariant, PTL

-----------------------------------------------------------------------------
(* What the screen's word says of the entries, and these of the trees *)

Listed == ParseStatusZ(GitStatus)
Roots  == BuildRepoSkillRoots(Listed)
Adds   == \E e \in Listed : IntroducesPath(e)

LEMMA ClassifyFacts ==
    /\ Classify.status = "blocked" <=> \E e \in Listed : Blocks(e, Roots)
    /\ Classify.status = "clean" => Listed = {}
    /\ Classify.status \in {"staged_only", "safe_to_stage_all"} =>
          \A e \in Listed : ~Blocks(e, Roots) /\ ~AsksEntry(e, Roots, Adds)
    /\ Classify.status = "staged_only" =>
          /\ \E e \in Listed : IsStaged(e)
          /\ \A e \in Listed : ~IsWorktreeChanged(e)
    /\ Classify.status = "safe_to_stage_all" => \A e \in Listed : ~IsStaged(e)
  <1> DEFINE hasStaged == \E e \in Listed : IsStaged(e)
             hasWorktree == \E e \in Listed : IsWorktreeChanged(e)
             blocks == \E e \in Listed : Blocks(e, Roots)
             asks == \/ \E e \in Listed : AsksEntry(e, Roots, Adds)
                     \/ hasStaged /\ hasWorktree
                     \/ Cardinality({e.path[1] : e \in Listed}) > 3
  <1>1. Classify.status = IF blocks THEN "blocked"
                          ELSE IF asks THEN "selection_required"
                          ELSE IF Listed = {} THEN "clean"
                          ELSE IF hasStaged /\ ~hasWorktree THEN "staged_only"
                          ELSE "safe_to_stage_all"
    BY DEF Classify, Listed, Roots, Adds
  <1>2. /\ Classify.status = "blocked" <=> blocks
        /\ Classify.status = "clean" => Listed = {}
        /\ Classify.status \in {"staged_only", "safe_to_stage_all"} => ~blocks /\ ~asks
        /\ Classify.status = "staged_only" => hasStaged /\ ~hasWorktree
        /\ Classify.status = "safe_to_stage_all" => ~(hasStaged /\ ~hasWorktree)
    <2> HIDE DEF blocks, asks, hasStaged, hasWorktree
    <2> QED BY <1>1
  <1> QED BY <1>2

(* Every path whose code is not blank is listed, and nothing unmerged      *)
(* passes.                                                                 *)
LEMMA ConflictBlocks ==
    ASSUME Trees, NEW p \in Paths, Unmerged(p)
    PROVE  TrackedEntry(p) \in Listed /\ Blocks(TrackedEntry(p), Roots)
  <1>1. CodeOf(p) = Conflict[index[p]] /\ index[p] \in DOMAIN Conflict
    BY CodeFacts DEF Unmerged
  <1>2. /\ CodeOf(p) # Blank /\ CodeOf(p) = <<CodeOf(p)[1], CodeOf(p)[2]>>
        /\ \/ "U" \in {CodeOf(p)[1], CodeOf(p)[2]}
           \/ CodeOf(p) \in {<<"A", "A">>, <<"D", "D">>}
    BY <1>1, ConflictFacts, Zenon
  <1>3. IsConflict(TrackedEntry(p))
    BY <1>2, EntryFields DEF IsConflict
  <1> QED BY <1>2, <1>3, IsEntry DEF Blocks, Listed

LEMMA BlankCode ==
    ASSUME Trees, NEW p \in Paths
    PROVE  CodeOf(p) = Blank <=> CodeOf(p)[1] = " " /\ CodeOf(p)[2] = " "
  <1>1. CodeOf(p) = <<CodeOf(p)[1], CodeOf(p)[2]>>
    BY CodeFacts
  <1>2. Blank[1] = " " /\ Blank[2] = " "
    BY DEF Blank
  <1> QED BY <1>1, <1>2 DEF Blank

(* The index is the last commit where no code says otherwise. *)
LEMMA IndexIsHead ==
    ASSUME Trees
    PROVE  index = head <=> \A p \in Paths : CodeOf(p)[1] = " "
  <1>1. ASSUME index = head, NEW p \in Paths
        PROVE  CodeOf(p)[1] = " "
    <2>1. ~Unmerged(p)
      BY <1>1, TreeFacts, PathFacts, ConflictFacts DEF Unmerged, Trees
    <2> QED BY <1>1, <2>1, CodeFacts, TreeFacts
  <1>2. ASSUME \A p \in Paths : CodeOf(p)[1] = " "
        PROVE  index = head
    <2>1. ASSUME NEW p \in Paths
          PROVE  index[p] = head[p]
      <3>1. CASE Unmerged(p)
        <4>1. Conflict[index[p]][1] \in {"U", "A", "D"}
          BY <3>1, ConflictFacts DEF Unmerged
        <4> QED BY <1>2, <3>1, <4>1, CodeFacts
      <3>2. CASE Holds(p)
        <4>1. CodeOf(p)[1] = " "
          BY <1>2
        <4> QED BY <3>2, <4>1, CodeFacts
      <3>3. CASE index[p] = Absent
        <4>1. CodeOf(p)[1] = " "
          BY <1>2
        <4>2. ~Goes(p, IndexRenames)
          <5> SUFFICES ASSUME Goes(p, IndexRenames) PROVE FALSE
            OBVIOUS
          <5>1. PICK q \in Paths : Comes(q, IndexRenames)
            BY RenameFacts
          <5>2. CodeOf(q)[1] = "R"
            BY <5>1, CodeFacts
          <5> QED BY <1>2, <5>2
        <4> QED BY <3>3, <4>1, <4>2, CodeFacts
      <3> QED BY <3>1, <3>2, <3>3, TreeFacts
    <2>2. head \in [Paths -> AllContents \cup {Absent}]
      BY DEF Trees, Tree
    <2>3. index \in [Paths -> AllContents \cup {Absent} \cup DOMAIN Conflict]
      BY DEF Trees
    <2> QED BY <2>1, <2>2, <2>3
  <1> QED BY <1>1, <1>2

(* Where nothing is listed as changed in the files, git add -A does        *)
(* nothing.                                                                *)
LEMMA NothingToStage ==
    ASSUME Trees, \A p \in Paths : ~Unmerged(p), \A e \in Listed : ~IsWorktreeChanged(e)
    PROVE  AllStaged = index
  <1>1. ASSUME NEW p \in Paths
        PROVE  index[p] = IF index[p] = Absent /\ p \in IgnoredPaths THEN Absent ELSE work[p]
    <2>1. ~IsNew(p)
      <3>1. UntrackedEntry(p).worktree = "?"
        BY EntryFields
      <3>2. IsWorktreeChanged(UntrackedEntry(p))
        BY <3>1 DEF IsWorktreeChanged
      <3> QED BY <3>2, IsEntry DEF Listed
    <2>2. CodeOf(p)[2] \in {" ", "!"}
      <3>1. CASE CodeOf(p) = Blank
        BY <3>1, BlankCode
      <3>2. CASE CodeOf(p) # Blank
        <4>1. TrackedEntry(p) \in Listed
          BY <3>2, IsEntry DEF Listed
        <4>2. TrackedEntry(p).worktree = CodeOf(p)[2]
          BY EntryFields
        <4> QED BY <4>1, <4>2 DEF IsWorktreeChanged
      <3> QED BY <3>1, <3>2
    <2>3. CASE Holds(p)
      BY <2>2, <2>3, CodeFacts, TreeFacts
    <2>4. CASE index[p] = Absent
      BY <2>1, <2>4 DEF IsNew
    <2> QED BY <2>3, <2>4, TreeFacts
  <1>2. index \in [Paths -> AllContents \cup {Absent} \cup DOMAIN Conflict]
    BY DEF Trees
  <1> QED BY <1>1, <1>2 DEF AllStaged

(* An entry counts as staged exactly where the index is not the last       *)
(* commit.                                                                 *)
LEMMA SomethingIsStaged ==
    ASSUME Trees
    PROVE  (\E e \in Listed : IsStaged(e)) <=> index # head
  <1>1. ASSUME NEW e \in Listed, IsStaged(e)
        PROVE  index # head
    <2>1. PICK p \in Paths : e = TrackedEntry(p)
      <3>1. \A p : ~IsStaged(UntrackedEntry(p))
        BY EntryFields DEF IsStaged
      <3> QED BY <1>1, <3>1, EntryFacts DEF Listed
    <2>2. CodeOf(p)[1] # " "
      BY <1>1, <2>1, EntryFields DEF IsStaged
    <2> QED BY <2>2, IndexIsHead
  <1>2. ASSUME index # head
        PROVE  \E e \in Listed : IsStaged(e)
    <2>1. PICK p \in Paths : CodeOf(p)[1] # " "
      BY <1>2, IndexIsHead
    <2>2. TrackedEntry(p) \in Listed
      BY <2>1, BlankCode, IsEntry DEF Listed
    <2>3. CodeOf(p)[1] \in {"A", "D", "M", "R", "U"}
      <3>1. CASE Unmerged(p)
        <4>1. Conflict[index[p]][1] \in {"U", "A", "D"}
          BY <3>1, ConflictFacts DEF Unmerged
        <4>2. CodeOf(p) = Conflict[index[p]]
          BY <3>1, CodeFacts
        <4> QED BY <4>1, <4>2
      <3>2. CASE ~Unmerged(p)
        BY <2>1, <3>2, CodeFacts, TreeFacts
      <3> QED BY <3>1, <3>2
    <2>4. IsStaged(TrackedEntry(p))
      BY <2>3, EntryFields DEF IsStaged
    <2> QED BY <2>2, <2>4
  <1> QED BY <1>1, <1>2

LEMMA NothingIsLeft == Trees => NothingLeftBehind
  <1> SUFFICES ASSUME Trees, Classify.status \in {"staged_only", "clean"}
               PROVE  AllStaged = index /\ (index = head <=> Classify.status = "clean")
    BY DEF NothingLeftBehind
  <1>1. ASSUME NEW p \in Paths PROVE ~Unmerged(p)
    <2>1. \A e \in Listed : ~Blocks(e, Roots)
      BY ClassifyFacts
    <2> QED BY <2>1, ConflictBlocks
  <1>2. \A e \in Listed : ~IsWorktreeChanged(e)
    BY ClassifyFacts
  <1>3. AllStaged = index
    BY <1>1, <1>2, NothingToStage
  <1>4. CASE Classify.status = "clean"
    <2>1. \A p \in Paths : CodeOf(p) = Blank
      BY <1>4, ClassifyFacts, IsEntry DEF Listed
    <2>2. index = head
      BY <2>1, BlankCode, IndexIsHead
    <2> QED BY <1>3, <1>4, <2>2
  <1>5. CASE Classify.status = "staged_only"
    <2>1. index # head
      BY <1>1, <1>5, ClassifyFacts, SomethingIsStaged
    <2> QED BY <1>3, <1>5, <2>1
  <1> QED BY <1>4, <1>5

(* The summary tells whether staged content exists: only git add           *)
(* --intent-to-add makes it tell otherwise.                                *)
THEOREM StagedIsToldCorrect == Spec => []StagedIsTold
  <1>1. Trees => StagedIsTold
    <2> SUFFICES ASSUME Trees PROVE StagedIsTold
      OBVIOUS
    <2>1. Classify.staged <=> \E e \in Listed : IsStaged(e)
      BY DEF Classify, Listed
    <2>2. \A p \in Paths : index[p] # Intent
      BY TreeFacts
    <2>3. /\ head \in [Paths -> AllContents \cup {Absent}]
          /\ index \in [Paths -> AllContents \cup {Absent} \cup DOMAIN Conflict]
      BY DEF Trees, Tree
    <2>4. index # head <=> \E p \in Paths : index[p] # head[p]
      BY <2>3
    <2> QED BY <2>1, <2>2, <2>4, SomethingIsStaged DEF StagedIsTold
  <1> QED BY <1>1, TreesInvariant, PTL

(* "staged_only" and "clean" are about all there is: nothing would be left *)
(* behind by a commit, and there is, or is not, something to commit.       *)
THEOREM NothingLeftBehindCorrect == Spec => []NothingLeftBehind
  BY NothingIsLeft, TreesInvariant, PTL

-----------------------------------------------------------------------------
(* Skills and their roots *)

(* The provers do not know that a quoted name is a string. *)
Names == STRING \cup {".agents", "skills", "skill.md"}

LEMMA NameSeqs == Seq(STRING) \subseteq Seq(Names)
  BY SeqMonotonic DEF Names

LEMMA PrefixFacts ==
    ASSUME NEW s \in Seq(Names), NEW t \in Seq(Names)
    PROVE  IsPrefix(s, t) <=> Len(s) <= Len(t) /\ \A j \in 1 .. Len(s) : s[j] = t[j]
  <1> DEFINE a == SubSeq(s, 1, Len(s))
             b == SubSeq(t, 1, Len(s))
  <1>1. Len(s) \in Nat /\ Len(t) \in Nat
    BY LenProperties
  <1>2. Len(a) = Len(s) /\ \A j \in 1 .. Len(s) : a[j] = s[j]
    OBVIOUS
  <1>3. Len(s) <= Len(t) => Len(b) = Len(s) /\ \A j \in 1 .. Len(s) : b[j] = t[j]
    OBVIOUS
  <1>4. a \in Seq(Names) /\ (Len(s) <= Len(t) => b \in Seq(Names))
    OBVIOUS
  <1>5. IsPrefix(s, t) <=> Len(s) <= Len(t) /\ a = b
    BY DEF IsPrefix
  <1> HIDE DEF a, b
  <1>6. ASSUME Len(s) <= Len(t), \A j \in 1 .. Len(s) : s[j] = t[j]
        PROVE  a = b
    <2>1. a \in Seq(Names) /\ b \in Seq(Names) /\ Len(a) = Len(b)
      BY <1>2, <1>3, <1>4, <1>6
    <2>2. \A j \in 1 .. Len(a) : a[j] = b[j]
      BY <1>2, <1>3, <1>6
    <2> QED BY <2>1, <2>2, SeqEqual
  <1>7. ASSUME Len(s) <= Len(t), a = b
        PROVE  \A j \in 1 .. Len(s) : s[j] = t[j]
    BY <1>2, <1>3, <1>7
  <1> QED BY <1>5, <1>6, <1>7

LEMMA ParentFacts ==
    ASSUME NEW s \in SkillParentPaths
    PROVE  /\ s \in Seq(Names) /\ Len(s) \in Nat /\ Len(s) >= 2
           /\ s[Len(s) - 1] = ".agents" /\ s[Len(s)] = "skills"
  <1>1. Cwd \in Seq(Names) /\ Len(Cwd) \in Nat
    BY ScreenAssumption, NameSeqs
  <1>2. PICK n \in 0 .. Len(Cwd) : s = SubSeq(Cwd, 1, n) \o <<".agents", "skills">>
    BY DEF SkillParentPaths
  <1> DEFINE d == SubSeq(Cwd, 1, n)
             e == <<".agents", "skills">>
  <1>3. d \in Seq(Names) /\ Len(d) = n
    BY <1>1
  <1>4. e \in Seq(Names) /\ Len(e) = 2 /\ e[1] = ".agents" /\ e[2] = "skills"
    <2>1. Len(e) = 2 /\ e[1] = ".agents" /\ e[2] = "skills"
      OBVIOUS
    <2>2. ".agents" \in Names /\ "skills" \in Names
      BY DEF Names
    <2>3. e \in Seq(Names)
      BY <2>2
    <2> QED BY <2>1, <2>3
  <1> HIDE DEF d, e
  <1>5. s = d \o e /\ n \in Nat
    BY <1>1, <1>2 DEF d, e
  <1>6. /\ s \in Seq(Names) /\ Len(s) = n + 2
        /\ \A i \in 1 .. n + 2 : s[i] = IF i <= n THEN d[i] ELSE e[i - n]
    <2>1. /\ d \o e \in Seq(Names) /\ Len(d \o e) = Len(d) + Len(e)
          /\ \A i \in 1 .. Len(d) + Len(e) :
                (d \o e)[i] = IF i <= Len(d) THEN d[i] ELSE e[i - Len(d)]
      BY <1>3, <1>4, ConcatProperties
    <2> QED BY <1>3, <1>4, <1>5, <2>1
  <1>7. s[n + 1] = e[1] /\ s[n + 2] = e[2]
    <2>1. n + 1 \in 1 .. n + 2 /\ n + 2 \in 1 .. n + 2 /\ ~(n + 1 <= n) /\ ~(n + 2 <= n)
          /\ (n + 1) - n = 1 /\ (n + 2) - n = 2
      BY <1>5
    <2> QED BY <1>6, <2>1
  <1>8. Len(s) - 1 = n + 1 /\ Len(s) \in Nat /\ Len(s) >= 2
    BY <1>5, <1>6
  <1> QED BY <1>4, <1>6, <1>7, <1>8

(* A skill's root: a directory of skills and one name more. *)
IsRoot(r) ==
    /\ r \in Seq(Names) /\ Len(r) \in Nat /\ Len(r) >= 3
    /\ SubSeq(r, 1, Len(r) - 1) \in SkillParentPaths
    /\ r[Len(r) - 2] = ".agents" /\ r[Len(r) - 1] = "skills"

LEMMA SkillRootsFacts ==
    ASSUME NEW p \in Seq(Names), NEW r \in SkillRoots(p)
    PROVE  IsRoot(r) /\ IsPrefix(r, p)
  <1>1. PICK s \in SkillParentPaths :
           IsPrefix(s, p) /\ Len(p) > Len(s) /\ r = SubSeq(p, 1, Len(s) + 1)
    BY DEF SkillRoots
  <1>2. /\ s \in Seq(Names) /\ Len(s) \in Nat /\ Len(s) >= 2
        /\ s[Len(s) - 1] = ".agents" /\ s[Len(s)] = "skills"
    BY ParentFacts
  <1> DEFINE m == Len(s)
  <1>3. m \in Nat /\ m >= 2 /\ Len(p) \in Nat /\ m + 1 <= Len(p)
    BY <1>1, <1>2
  <1>4. \A j \in 1 .. m : s[j] = p[j]
    BY <1>1, <1>2, PrefixFacts
  <1> HIDE DEF m
  <1>5. r = SubSeq(p, 1, m + 1)
    BY <1>1 DEF m
  <1>6. r \in Seq(Names) /\ Len(r) = m + 1 /\ \A j \in 1 .. m + 1 : r[j] = p[j]
    BY <1>3, <1>5
  <1>7. IsPrefix(r, p)
    BY <1>3, <1>6, PrefixFacts
  <1>8. SubSeq(r, 1, Len(r) - 1) = s
    <2> DEFINE t == SubSeq(r, 1, m)
    <2>1. t \in Seq(Names) /\ Len(t) = m /\ \A j \in 1 .. m : t[j] = r[j]
      BY <1>3, <1>6
    <2>2. \A j \in 1 .. m : t[j] = s[j]
      BY <1>3, <1>4, <1>6, <2>1
    <2> HIDE DEF t
    <2>3. t = s
      BY <1>2, <2>1, <2>2, SeqEqual DEF m
    <2>4. Len(r) - 1 = m
      BY <1>3, <1>6
    <2> QED BY <2>3, <2>4 DEF t
  <1>9. r[m] = s[m] /\ r[m - 1] = s[m - 1]
    BY <1>3, <1>4, <1>6
  <1>10. Len(r) - 2 = m - 1 /\ Len(r) - 1 = m /\ Len(r) \in Nat /\ Len(r) >= 3
    BY <1>3, <1>6
  <1> QED BY <1>2, <1>6, <1>7, <1>8, <1>9, <1>10 DEF IsRoot, m

AgentPlaces(p) == {i \in DOMAIN p : p[i] \in AgentParts}

(* A path that names one agent directory lies in one skill at most. *)
LEMMA OnePlace ==
    ASSUME NEW p \in Seq(Names), NEW r, IsRoot(r), IsPrefix(r, p),
           NEW i, AgentPlaces(p) = {i}
    PROVE  Len(r) = i + 2 /\ p[i] = ".agents" /\ SkillRoots(p) = {r}
  <1> DEFINE n == Len(r)
             s == SubSeq(r, 1, n - 1)
  <1>1. /\ r \in Seq(Names) /\ n \in Nat /\ n >= 3 /\ s \in SkillParentPaths
        /\ r[n - 2] = ".agents" /\ Len(p) \in Nat /\ DOMAIN p = 1 .. Len(p)
    BY DEF IsRoot
  <1>2. n <= Len(p) /\ \A j \in 1 .. n : r[j] = p[j]
    BY <1>1, PrefixFacts
  <1>3. ".agents" \in AgentParts
    BY DEF AgentParts
  <1>4. n - 2 \in 1 .. Len(p) /\ n - 2 \in 1 .. n
    BY <1>1, <1>2
  <1>5. n - 2 = i /\ p[i] = ".agents"
    BY <1>1, <1>2, <1>3, <1>4 DEF AgentPlaces
  <1>6. i \in Nat /\ n = i + 2
    BY <1>1, <1>5
  <1>7. s \in Seq(Names) /\ Len(s) = n - 1 /\ \A j \in 1 .. n - 1 : s[j] = r[j]
    BY <1>1
  <1> DEFINE parents == {t \in SkillParentPaths : IsPrefix(t, p) /\ Len(p) > Len(t)}
  <1>8. ASSUME NEW t \in parents
        PROVE  Len(t) = n - 1
    <2>1. t \in Seq(Names) /\ Len(t) \in Nat /\ Len(t) >= 2 /\ t[Len(t) - 1] = ".agents"
      BY ParentFacts
    <2>2. Len(t) <= Len(p) /\ \A j \in 1 .. Len(t) : t[j] = p[j]
      BY <2>1, PrefixFacts
    <2>3. Len(t) - 1 \in 1 .. Len(t) /\ Len(t) - 1 \in 1 .. Len(p)
      BY <1>1, <2>1, <2>2
    <2>4. Len(t) - 1 = i
      BY <1>1, <1>3, <2>1, <2>2, <2>3 DEF AgentPlaces
    <2> QED BY <1>6, <2>1, <2>4
  <1> HIDE DEF s
  <1>9. s \in parents
    <2>1. IsPrefix(s, p)
      BY <1>1, <1>2, <1>7, PrefixFacts
    <2> QED BY <1>1, <1>2, <1>7, <2>1
  <1>10. SubSeq(p, 1, n) = r
    <2> DEFINE t == SubSeq(p, 1, n)
    <2>1. t \in Seq(Names) /\ Len(t) = n /\ \A j \in 1 .. n : t[j] = p[j]
      BY <1>1, <1>2
    <2> HIDE DEF t
    <2>2. t = r
      BY <1>1, <1>2, <2>1, SeqEqual
    <2> QED BY <2>2 DEF t
  <1>11. SkillRoots(p) =
            {SubSeq(p, 1, Len(t) + 1) : t \in {t \in parents : \A u \in parents : Len(u) <= Len(t)}}
    BY DEF SkillRoots
  <1> HIDE DEF parents, n
  <1>12. \A t \in parents : Len(t) + 1 = n /\ \A u \in parents : Len(u) <= Len(t)
    BY <1>1, <1>8
  <1>13. {t \in parents : \A u \in parents : Len(u) <= Len(t)} = parents
    BY <1>12
  <1>14. \A t \in parents : SubSeq(p, 1, Len(t) + 1) = r
    BY <1>10, <1>12
  <1>15. SkillRoots(p) = {SubSeq(p, 1, Len(t) + 1) : t \in parents}
    BY <1>11, <1>13
  <1>16. SkillRoots(p) = {r}
    BY <1>9, <1>14, <1>15
  <1> QED BY <1>5, <1>6, <1>16 DEF n

(* More than one of a finite set, or just the one. *)
LEMMA OneOf ==
    ASSUME NEW S, IsFiniteSet(S), NEW x \in S
    PROVE  Cardinality(S) > 1 <=> S # {x}
  <1>1. Cardinality({x}) = 1 /\ IsFiniteSet({x})
    BY FS_Singleton
  <1>2. ASSUME S # {x} PROVE Cardinality(S) > 1
    <2>1. PICK y \in S : y # x
      BY <1>2
    <2>2. IsFiniteSet({x} \cup {y}) /\ Cardinality({x} \cup {y}) = 2
      BY <1>1, <2>1, FS_AddElement
    <2>3. {x} \cup {y} \in SUBSET S
      BY <2>1
    <2>4. Cardinality({x} \cup {y}) <= Cardinality(S) /\ Cardinality(S) \in Nat
      BY <2>3, FS_Subset, FS_CardinalityType
    <2> QED BY <2>2, <2>4
  <1>3. ASSUME S = {x} PROVE ~(Cardinality(S) > 1)
    BY <1>1, <1>3
  <1> QED BY <1>2, <1>3

FirstPlace(p)     == p[Min(AgentPlaces(p))]
Nested(p)         == Cardinality(AgentPlaces(p)) > 1
SkillBlocks(p, R) == Nested(p) \/ RuntimeState(Below(p, Len(RootAbove(p, R))))
CodexBlocks(p)    ==
    LET tail == Below(p, Min(AgentPlaces(p)))
    IN Home \/ Nested(p) \/ RuntimeState(tail) \/ ~CodexSource(tail)

(* An agent's path, case by case. *)
LEMMA AgentRiskCases ==
    ASSUME NEW p, NEW R
    PROVE  AgentPathRisk(p, R) =
              IF Name(p) = ".claude.json" THEN "block"
              ELSE IF p = ManagedAgentSource \/ AgentPlaces(p) = {} THEN "safe"
              ELSE IF FirstPlace(p) = ".agents" /\ RootsAbove(p, R) # {}
              THEN IF SkillBlocks(p, R) THEN "block" ELSE "safe"
              ELSE IF FirstPlace(p) = ".agents"
              THEN IF Home \/ p # AgentMarketplace THEN "block" ELSE "safe"
              ELSE IF FirstPlace(p) = ".codex"
              THEN IF CodexBlocks(p) THEN "block" ELSE "codex project source"
              ELSE "block"
  <1> DEFINE blocks(part) ==
                IF part = ".agents" /\ RootsAbove(p, R) # {} THEN SkillBlocks(p, R)
                ELSE IF part = ".agents" THEN Home \/ p # AgentMarketplace
                ELSE IF part = ".codex" THEN CodexBlocks(p)
                ELSE TRUE
  <1>1. AgentPathRisk(p, R) =
           IF Name(p) = ".claude.json" THEN "block"
           ELSE IF p = ManagedAgentSource \/ AgentPlaces(p) = {} THEN "safe"
           ELSE IF blocks(FirstPlace(p)) THEN "block"
           ELSE IF FirstPlace(p) = ".codex" THEN "codex project source"
           ELSE "safe"
    BY Zenon DEF AgentPathRisk, AgentPlaces, FirstPlace, SkillBlocks, CodexBlocks, Nested
  <1>2. ".agents" # ".codex"
    OBVIOUS
  <1> DEFINE first == FirstPlace(p)
             above == RootsAbove(p, R) # {}
             none  == p = ManagedAgentSource \/ AgentPlaces(p) = {}
             skill == SkillBlocks(p, R)
             codex == CodexBlocks(p)
             other == Home \/ p # AgentMarketplace
  <1> HIDE DEF first, above, none, skill, codex, other
  <1>3. blocks(first) = IF first = ".agents" /\ above THEN skill
                        ELSE IF first = ".agents" THEN other
                        ELSE IF first = ".codex" THEN codex ELSE TRUE
    BY DEF above, skill, codex, other
  <1>4. AgentPathRisk(p, R) =
           IF Name(p) = ".claude.json" THEN "block"
           ELSE IF none THEN "safe"
           ELSE IF IF first = ".agents" /\ above THEN skill
                   ELSE IF first = ".agents" THEN other
                   ELSE IF first = ".codex" THEN codex ELSE TRUE
           THEN "block"
           ELSE IF first = ".codex" THEN "codex project source"
           ELSE "safe"
    BY <1>1, <1>3, Zenon DEF none, first
  <1>5. AgentPathRisk(p, R) =
           IF Name(p) = ".claude.json" THEN "block"
           ELSE IF none THEN "safe"
           ELSE IF first = ".agents" /\ above
           THEN IF skill THEN "block" ELSE "safe"
           ELSE IF first = ".agents"
           THEN IF other THEN "block" ELSE "safe"
           ELSE IF first = ".codex"
           THEN IF codex THEN "block" ELSE "codex project source"
           ELSE "block"
    <2>1. CASE Name(p) = ".claude.json" \/ none
      BY <1>4, <2>1
    <2>2. CASE Name(p) # ".claude.json" /\ ~none /\ first = ".agents" /\ above
      BY <1>2, <1>4, <2>2
    <2>3. CASE Name(p) # ".claude.json" /\ ~none /\ first = ".agents" /\ ~above
      BY <1>2, <1>4, <2>3
    <2>4. CASE Name(p) # ".claude.json" /\ ~none /\ first # ".agents"
      BY <1>4, <2>4
    <2> QED BY <2>1, <2>2, <2>3, <2>4
  <1> QED BY <1>5, Zenon DEF first, above, none, skill, codex, other

(* What lies in a skill and may be committed for that. *)
InSkill(p, r) ==
    /\ IsPrefix(r, p) /\ Name(p) # ".claude.json"
    /\ \E i : AgentPlaces(p) = {i}
    /\ ~RuntimeState(Below(p, Len(r)))

LEMMA FirstPlaceFacts ==
    ASSUME NEW p \in Seq(Names), AgentPlaces(p) # {}
    PROVE  /\ Min(AgentPlaces(p)) \in AgentPlaces(p)
           /\ IsFiniteSet(AgentPlaces(p))
           /\ FirstPlace(p) \in AgentParts
           /\ ~Nested(p) => AgentPlaces(p) = {Min(AgentPlaces(p))}
           /\ (\E i : AgentPlaces(p) = {i}) => ~Nested(p)
  <1> DEFINE S == AgentPlaces(p)
  <1>1. Len(p) \in Nat /\ S \subseteq 1 .. Len(p) /\ S \subseteq Nat
    BY DEF AgentPlaces
  <1>2. Min(S) \in S
    BY <1>1, MinFacts
  <1>3. IsFiniteSet(S)
    <2>1. IsFiniteSet(1 .. Len(p)) /\ S \in SUBSET (1 .. Len(p))
      BY <1>1, FS_Interval
    <2> QED BY <2>1, FS_Subset
  <1>4. FirstPlace(p) \in AgentParts
    BY <1>2 DEF FirstPlace, AgentPlaces
  <1> HIDE DEF S
  <1>5. \A x \in S : Nested(p) <=> S # {x}
    BY <1>3, OneOf DEF Nested, S
  <1>6. ASSUME NEW i, S = {i}
        PROVE  ~Nested(p)
    BY <1>5, <1>6
  <1> QED BY <1>2, <1>3, <1>4, <1>5, <1>6 DEF S

(* A path of one agent has one root above it, of those that are roots. *)
LEMMA RootAboveIs ==
    ASSUME NEW p \in Seq(Names), NEW R, \A r \in R : IsRoot(r),
           \E i : AgentPlaces(p) = {i}, NEW r \in R, IsPrefix(r, p)
    PROVE  RootAbove(p, R) = r /\ RootsAbove(p, R) = {r} /\ SkillRoots(p) = {r}
  <1>1. PICK i : AgentPlaces(p) = {i}
    OBVIOUS
  <1>2. SkillRoots(p) = {r}
    BY <1>1, OnePlace
  <1>3. \A s \in RootsAbove(p, R) : s = r
    <2> SUFFICES ASSUME NEW s \in RootsAbove(p, R) PROVE s = r
      OBVIOUS
    <2>1. IsRoot(s) /\ IsPrefix(s, p)
      BY DEF RootsAbove
    <2>2. SkillRoots(p) = {s}
      BY <1>1, <2>1, OnePlace
    <2> QED BY <1>2, <2>2
  <1>4. RootsAbove(p, R) = {r}
    BY <1>3 DEF RootsAbove
  <1>5. \A s \in RootsAbove(p, R) : Len(s) <= Len(r)
    <2>1. Len(r) \in Nat
      BY DEF IsRoot
    <2> QED BY <1>3, <2>1
  <1>6. RootAbove(p, R) \in RootsAbove(p, R)
    <2>1. \E q \in RootsAbove(p, R) : \A s \in RootsAbove(p, R) : Len(s) <= Len(q)
      BY <1>4, <1>5
    <2> QED BY <2>1 DEF RootAbove
  <1> QED BY <1>2, <1>3, <1>4, <1>6

(* An agent's path that is not blocked is one of the two known by name, is *)
(* codex source, or lies in a skill.                                       *)
LEMMA AgentRiskFacts ==
    ASSUME NEW p \in Seq(Names), NEW R, \A r \in R : IsRoot(r)
    PROVE  /\ AgentPathRisk(p, R) \in {"block", "safe", "codex project source"}
           /\ /\ AgentPathRisk(p, R) = "safe" /\ AgentPlaces(p) # {}
              /\ p \notin {ManagedAgentSource, AgentMarketplace}
              => \E r \in R : IsPrefix(r, p) /\ SkillRoots(p) = {r}
  <1>1. AgentPathRisk(p, R) \in {"block", "safe", "codex project source"}
    BY AgentRiskCases
  <1>2. ASSUME AgentPathRisk(p, R) = "safe", AgentPlaces(p) # {},
               p # ManagedAgentSource, p # AgentMarketplace
        PROVE  \E r \in R : IsPrefix(r, p) /\ SkillRoots(p) = {r}
    <2>1. RootsAbove(p, R) # {} /\ ~SkillBlocks(p, R)
      BY <1>2, AgentRiskCases
    <2>2. PICK r \in R : IsPrefix(r, p)
      BY <2>1 DEF RootsAbove
    <2>3. \E i : AgentPlaces(p) = {i}
      BY <1>2, <2>1, FirstPlaceFacts DEF SkillBlocks
    <2> QED BY <2>2, <2>3, RootAboveIs
  <1> QED BY <1>1, <1>2

LEMMA NotMarketplace ==
    ASSUME NEW p \in Seq(Names), NEW r, IsRoot(r), IsPrefix(r, p)
    PROVE  p # AgentMarketplace
  <1> SUFFICES ASSUME p = AgentMarketplace PROVE FALSE
    OBVIOUS
  <1>1. Len(p) = 3 /\ p[1] = ".agents" /\ p[2] = "plugins"
    BY DEF AgentMarketplace
  <1>2. /\ r \in Seq(Names) /\ Len(r) \in Nat /\ Len(r) >= 3
        /\ r[Len(r) - 1] = "skills"
    BY DEF IsRoot
  <1>3. Len(r) <= Len(p) /\ \A j \in 1 .. Len(r) : r[j] = p[j]
    BY <1>2, PrefixFacts
  <1>4. Len(r) - 1 = 2 /\ 2 \in 1 .. Len(r)
    BY <1>1, <1>2, <1>3
  <1> QED BY <1>1, <1>2, <1>3, <1>4

(* The roots matter to what lies in one of them, and to nothing else. *)
LEMMA AgentByRoots ==
    ASSUME NEW p \in Seq(Names), NEW R, \A r \in R : IsRoot(r)
    PROVE  AgentPathRisk(p, R) # "block" <=>
              AgentPathRisk(p, {}) # "block" \/ \E r \in R : InSkill(p, r)
  <1>1. RootsAbove(p, {}) = {}
    BY DEF RootsAbove
  <1>2. CASE Name(p) = ".claude.json"
    BY <1>2, AgentRiskCases DEF InSkill
  <1>3. CASE p = ManagedAgentSource /\ Name(p) # ".claude.json"
    BY <1>3, AgentRiskCases
  <1>4. CASE AgentPlaces(p) = {} /\ Name(p) # ".claude.json"
    BY <1>4, AgentRiskCases
  <1>5. CASE /\ Name(p) # ".claude.json" /\ p # ManagedAgentSource
             /\ AgentPlaces(p) # {} /\ RootsAbove(p, R) = {}
    <2>1. \A r \in R : ~InSkill(p, r)
      BY <1>5 DEF InSkill, RootsAbove
    <2>2. AgentPathRisk(p, R) = AgentPathRisk(p, {})
      BY <1>1, <1>5, AgentRiskCases
    <2> QED BY <2>1, <2>2
  <1>6. CASE /\ Name(p) # ".claude.json" /\ p # ManagedAgentSource
             /\ AgentPlaces(p) # {} /\ RootsAbove(p, R) # {}
    <2>1. PICK r \in R : IsPrefix(r, p)
      BY <1>6 DEF RootsAbove
    <2>2. CASE Nested(p)
      <3>1. \A s \in R : ~InSkill(p, s)
        BY <1>6, <2>2, FirstPlaceFacts DEF InSkill
      <3>2. AgentPathRisk(p, {}) # "block" => FirstPlace(p) = ".agents" /\ p = AgentMarketplace
        BY <1>1, <1>6, <2>2, AgentRiskCases DEF CodexBlocks
      <3>3. p # AgentMarketplace
        BY <2>1, NotMarketplace
      <3>4. CASE FirstPlace(p) = ".agents"
        <4>1. AgentPathRisk(p, R) = "block"
          BY <1>6, <2>2, <3>4, AgentRiskCases DEF SkillBlocks
        <4> QED BY <3>1, <3>2, <3>3, <4>1
      <3>5. CASE FirstPlace(p) # ".agents"
        <4>1. AgentPathRisk(p, R) = "block"
          BY <1>6, <2>2, <3>5, AgentRiskCases DEF CodexBlocks
        <4> QED BY <3>1, <3>2, <3>5, <4>1
      <3> QED BY <3>4, <3>5
    <2>3. CASE ~Nested(p)
      <3>1. PICK i : AgentPlaces(p) = {i}
        BY <1>6, <2>3, FirstPlaceFacts
      <3>2. p[i] = ".agents" /\ SkillRoots(p) = {r} /\ RootAbove(p, R) = r /\ RootsAbove(p, R) = {r}
        BY <2>1, <3>1, OnePlace, RootAboveIs
      <3>3. FirstPlace(p) = ".agents"
        BY <3>1, <3>2, FirstPlaceFacts DEF FirstPlace
      <3>4. AgentPathRisk(p, R) # "block" <=> ~RuntimeState(Below(p, Len(r)))
        BY <1>6, <2>3, <3>2, <3>3, AgentRiskCases DEF SkillBlocks
      <3>5. InSkill(p, r) <=> ~RuntimeState(Below(p, Len(r)))
        BY <1>6, <2>1, <3>1 DEF InSkill
      <3>6. \A s \in R : InSkill(p, s) => s = r
        BY <3>2 DEF InSkill, RootsAbove
      <3>7. AgentPathRisk(p, {}) # "block" => p = AgentMarketplace
        BY <1>1, <1>6, <3>3, AgentRiskCases
      <3>8. p # AgentMarketplace
        BY <2>1, NotMarketplace
      <3> QED BY <3>4, <3>5, <3>6, <3>7, <3>8
    <2> QED BY <2>2, <2>3
  <1> QED BY <1>2, <1>3, <1>4, <1>5, <1>6

-----------------------------------------------------------------------------
(* What the advice lets through *)

LEMMA PathNames == Trees => Paths \subseteq Seq(Names)
  BY PathFacts, NameSeqs DEF Trees

(* The roots the screen works with are roots of skills, and the marker of  *)
(* a current one is committed and stays, or comes.                         *)
LEMMA RootsFacts ==
    ASSUME Trees
    PROVE  /\ \A r \in Roots.current \cup Roots.original : IsRoot(r)
           /\ \A r \in Roots.original : HeadHas(Marker(r))
           /\ \A r \in Roots.current :
                 \/ HeadHas(Marker(r)) /\ Marker(r) \notin DeletedMarkers(Listed)
                 \/ Marker(r) \in IntroducedMarkers(Listed)
  <1> DEFINE changed    == UNION {SkillRoots(p) : p \in UNION {PathsOf(e) : e \in Listed}}
             original   == {root \in changed : HeadHas(Marker(root))}
             surviving  == {root \in original : Marker(root) \notin DeletedMarkers(Listed)}
             introduced == {root \in changed : Marker(root) \in IntroducedMarkers(Listed)}
  <1>1. Roots = IF Home THEN [current |-> {}, original |-> {}]
                ELSE [current |-> surviving \cup introduced, original |-> original]
    BY DEF Roots, BuildRepoSkillRoots
  <1>2. \A r \in changed : IsRoot(r)
    BY EntryPaths, PathNames, SkillRootsFacts DEF Listed
  <1> HIDE DEF changed
  <1>3. CASE Home
    BY <1>1, <1>3
  <1>4. CASE ~Home
    <2>1. Roots.current = surviving \cup introduced /\ Roots.original = original
      BY <1>1, <1>4
    <2> QED BY <1>2, <2>1
  <1> QED BY <1>3, <1>4

LEMMA FileRiskFacts ==
    ASSUME NEW p, NEW g \in BOOLEAN, NEW R
    PROVE  /\ FileRisk(p, g, R) = "block" <=>
                 \/ IsSecretOrPrivate(p)
                 \/ AgentPathRisk(p, R) = "block"
                 \/ ContentAt(p) = "repo" /\ ~g
           /\ FileRisk(p, g, R) \notin {"block", "symlink", "codex project source"} =>
                 AgentPathRisk(p, R) \notin {"block", "codex project source"}
           /\ FileRisk(p, g, R) \notin {"block", "symlink", "codex project source", "risky"} =>
                 ContentAt(p) \notin {"symlink", "binary"}
  <1>1. AgentPathRisk(p, R) \in {"block", "safe", "codex project source"}
    BY AgentRiskCases
  <1> DEFINE a == AgentPathRisk(p, R)
             c == ContentAt(p)
             s == IsSecretOrPrivate(p)
             y == IsGeneratedOrRisky(RiskyPath(p, R)) \/ c = "binary"
  <1>2. FileRisk(p, g, R) = IF s \/ a = "block" \/ (c = "repo" /\ ~g) THEN "block"
                            ELSE IF a # "safe" THEN a
                            ELSE IF c = "repo" THEN "safe"
                            ELSE IF c = "symlink" THEN "symlink"
                            ELSE IF y THEN "risky" ELSE "safe"
    BY Zenon DEF FileRisk
  <1>3. c = "binary" => y
    OBVIOUS
  <1> HIDE DEF a, c, s, y
  <1>4. a \in {"block", "safe", "codex project source"}
    BY <1>1 DEF a
  <1>5. /\ FileRisk(p, g, R) = "block" <=> s \/ a = "block" \/ (c = "repo" /\ ~g)
        /\ FileRisk(p, g, R) \notin {"block", "symlink", "codex project source"} =>
              a \notin {"block", "codex project source"}
        /\ FileRisk(p, g, R) \notin {"block", "symlink", "codex project source", "risky"} =>
              c \notin {"symlink", "binary"}
    <2>1. CASE s \/ a = "block" \/ (c = "repo" /\ ~g)
      BY <1>2, <2>1
    <2>2. CASE ~(s \/ a = "block" \/ (c = "repo" /\ ~g))
      BY <1>2, <1>3, <1>4, <2>2
    <2> QED BY <2>1, <2>2
  <1> QED BY <1>5 DEF a, c, s

(* The entry of a path that is added or changed by staging all. *)
LEMMA ChangeIsListed ==
    ASSUME Trees, NEW p \in Paths, ~Unmerged(p), AllStaged[p] \notin {Absent, head[p]}
    PROVE  \E e \in Listed :
              e.path = p /\ ~IsPureDeletion(e) /\ (head[p] = Absent => IntroducesPath(e))
  <1>1. /\ AllStaged[p] = work[p] /\ work[p] # Absent /\ work[p] # head[p]
        /\ ~(index[p] = Absent /\ p \in IgnoredPaths)
    BY DEF AllStaged
  <1>2. CASE Holds(p)
    <2>1. CodeOf(p)[1] \in {"A", "R", "M", " "} /\ CodeOf(p)[2] \in {"M", " "}
      BY <1>1, <1>2, CodeFacts
    <2>2. CodeOf(p)[1] = " " => CodeOf(p)[2] = "M"
      BY <1>1, <1>2, CodeFacts
    <2>3. head[p] = Absent => CodeOf(p)[1] \in {"A", "R"}
      BY <1>2, CodeFacts
    <2>4. TrackedEntry(p) \in Listed
      BY <2>2, BlankCode, IsEntry DEF Listed
    <2>5. ~IsPureDeletion(TrackedEntry(p))
      BY <2>1, EntryFields DEF IsPureDeletion
    <2>6. head[p] = Absent => IntroducesPath(TrackedEntry(p))
      BY <2>3, EntryFields DEF IntroducesPath
    <2> QED BY <2>4, <2>5, <2>6, EntryFields
  <1>3. CASE index[p] = Absent
    <2>1. UntrackedEntry(p) \in Listed
      BY <1>1, <1>3, IsEntry DEF IsNew, Listed
    <2>2. ~IsPureDeletion(UntrackedEntry(p)) /\ IntroducesPath(UntrackedEntry(p))
      BY EntryFields DEF IsPureDeletion, IntroducesPath, IsUntracked
    <2> QED BY <2>1, <2>2, EntryFields
  <1> QED BY <1>2, <1>3, TreeFacts

(* The SKILL.md of a current root is there when all is staged. *)
LEMMA MarkerStays ==
    ASSUME Trees, \A p \in Paths : ~Unmerged(p),
           \A e \in Listed : ~AsksEntry(e, Roots, Adds),
           NEW r \in Roots.current
    PROVE  Marker(r) \in Paths /\ AllStaged[Marker(r)] # Absent
  <1> DEFINE m == Marker(r)
  <1>1. \A p \in Paths : AllStaged[p] = IF index[p] = Absent /\ p \in IgnoredPaths THEN Absent
                                        ELSE work[p]
    BY DEF AllStaged
  <1>2. CASE HeadHas(m) /\ m \notin DeletedMarkers(Listed)
    <2>1. m \in Paths /\ head[m] # Absent
      BY <1>2 DEF HeadHas
    <2> HIDE DEF m
    <2>2. /\ CodeOf(m) # Blank => CodeOf(m)[1] # "D" /\ CodeOf(m)[2] # "D"
          /\ ~Goes(m, IndexRenames)
      <3>1. CodeOf(m) # Blank => CodeOf(m)[1] # "D" /\ CodeOf(m)[2] # "D"
        <4> SUFFICES ASSUME CodeOf(m) # Blank PROVE CodeOf(m)[1] # "D" /\ CodeOf(m)[2] # "D"
          OBVIOUS
        <4>1. TrackedEntry(m) \in Listed
          BY <2>1, IsEntry DEF Listed
        <4> QED BY <1>2, <4>1, EntryFields DEF DeletedMarkers
      <3>2. ~Goes(m, IndexRenames)
        <4> SUFFICES ASSUME Goes(m, IndexRenames) PROVE FALSE
          OBVIOUS
        <4>1. PICK q \in Paths : Comes(q, IndexRenames) /\ Origin(q, IndexRenames) = m
          BY RenameFacts
        <4>2. CodeOf(q)[1] = "R"
          BY <4>1, CodeFacts
        <4>3. TrackedEntry(q) \in Listed
          BY <4>2, BlankCode, IsEntry DEF Listed
        <4>4. TrackedEntry(q).index = "R" /\ TrackedEntry(q).original_path = m
          BY <4>1, <4>2, EntryFields
        <4> QED BY <1>2, <4>3, <4>4 DEF DeletedMarkers
      <3> QED BY <3>1, <3>2
    <2>3. index[m] # Absent
      <3> SUFFICES ASSUME index[m] = Absent PROVE FALSE
        OBVIOUS
      <3>1. CodeOf(m)[1] = "D"
        BY <2>1, <2>2, CodeFacts
      <3>2. CodeOf(m) # Blank
        BY <2>1, <3>1, BlankCode
      <3> QED BY <2>2, <3>1, <3>2
    <2>4. Holds(m)
      BY <2>1, <2>3, TreeFacts
    <2>5. work[m] # Absent
      <3> SUFFICES ASSUME work[m] = Absent PROVE FALSE
        OBVIOUS
      <3>1. CodeOf(m)[2] = "D"
        BY <2>1, <2>4, CodeFacts
      <3>2. CodeOf(m) # Blank
        BY <2>1, <3>1, BlankCode
      <3> QED BY <2>2, <3>1, <3>2
    <2>6. m \in Paths /\ AllStaged[m] # Absent
      BY <1>1, <2>1, <2>3, <2>5
    <2> QED BY <2>6 DEF m
  <1>3. CASE m \in IntroducedMarkers(Listed)
    <2>1. PICK e \in Listed : IntroducesPath(e) /\ e.path = m
      BY <1>3 DEF IntroducedMarkers
    <2> HIDE DEF m
    <2>2. ASSUME NEW p \in Paths, IsNew(p), e = UntrackedEntry(p)
          PROVE  m \in Paths /\ AllStaged[m] # Absent
      <3>1. p = m
        BY <2>1, <2>2, EntryFields
      <3>2. work[p] # Absent /\ p \notin IgnoredPaths
        BY <2>2 DEF IsNew
      <3>3. AllStaged[p] = work[p]
        BY <1>1, <3>2
      <3> QED BY <2>2, <3>1, <3>2, <3>3
    <2>3. ASSUME NEW p \in Paths, CodeOf(p) # Blank, e = TrackedEntry(p)
          PROVE  m \in Paths /\ AllStaged[m] # Absent
      <3>1. p = m /\ e.index = CodeOf(p)[1] /\ e.worktree = CodeOf(p)[2]
        BY <2>1, <2>3, EntryFields
      <3>2. Holds(p) \/ index[p] = Absent
        BY TreeFacts
      <3>3. CodeOf(p)[2] \in {" ", "D", "M"}
        BY <3>2, CodeFacts
      <3>4. CodeOf(p)[1] \in {"A", "R", "C"}
        BY <2>1, <3>1, <3>3 DEF IntroducesPath, IsUntracked
      <3>5. Holds(p)
        BY <3>2, <3>4, CodeFacts
      <3>6. work[p] # Absent
        <4> SUFFICES ASSUME work[p] = Absent PROVE FALSE
          OBVIOUS
        <4>1. CodeOf(p)[2] = "D"
          BY <3>5, CodeFacts
        <4>2. IsPartialStaged(e) /\ ~IsPureDeletion(e)
          BY <3>1, <3>4, <4>1 DEF IsPartialStaged, IsPureDeletion, IsStaged, IsWorktreeChanged
        <4> QED BY <4>2 DEF AsksEntry, AsksChange
      <3>7. index[p] # Absent
        BY <3>5, TreeFacts
      <3> QED BY <1>1, <3>1, <3>6, <3>7
    <2>4. m \in Paths /\ AllStaged[m] # Absent
      BY <2>2, <2>3, EntryFacts DEF Listed
    <2> QED BY <2>4 DEF m
  <1> QED BY <1>2, <1>3, RootsFacts

LEMMA AdviceIsFounded == Trees => AdviceIsAccountedFor
  <1> DEFINE status == Classify.status
  <1> SUFFICES ASSUME Trees, status \in {"safe_to_stage_all", "staged_only"}, NEW p \in Paths,
                      Advised(status)[p] \notin {Absent, head[p]}
               PROVE  Accounted(p, Advised(status))
    BY DEF AdviceIsAccountedFor
  <1>1. \A e \in Listed : ~Blocks(e, Roots) /\ ~AsksEntry(e, Roots, Adds)
    BY ClassifyFacts
  <1>2. \A q \in Paths : ~Unmerged(q)
    BY <1>1, ConflictBlocks
  <1>3. Advised(status) = AllStaged
    <2>1. CASE status = "staged_only"
      <3>1. \A e \in Listed : ~IsWorktreeChanged(e)
        BY <2>1, ClassifyFacts
      <3> QED BY <1>2, <2>1, <3>1, NothingToStage DEF Advised
    <2>2. CASE status = "safe_to_stage_all"
      BY <2>2 DEF Advised
    <2> QED BY <2>1, <2>2
  <1> HIDE DEF status
  <1>4. PICK e \in Listed :
           e.path = p /\ ~IsPureDeletion(e) /\ (head[p] = Absent => IntroducesPath(e))
    BY <1>2, <1>3, ChangeIsListed
  <1>5. ~AsksChange(e, Roots) /\ RiskOf(e, Roots) # "block"
    BY <1>1, <1>4 DEF AsksEntry, Blocks
  <1> DEFINE g == KnownGitlink(p)
             R == Roots.current
  <1>6. RiskOf(e, Roots) = FileRisk(p, g, R) /\ g \in BOOLEAN
    BY <1>4 DEF RiskOf, KnownGitlink
  <1>7. FileRisk(p, g, R) \notin {"block", "symlink", "codex project source"}
    BY <1>5, <1>6 DEF AsksChange
  <1>8. ~IsSecretOrPrivate(p)
    BY <1>6, <1>7, FileRiskFacts
  <1>9. ASSUME head[p] = Absent
        PROVE  /\ AllStaged[p] = "repo" \/ Kind(AllStaged[p]) = "text"
               /\ Name(p) \in SafeNames \cup EnvTemplates
               /\ p \notin IgnoredPaths
    <2>1. IntroducesPath(e)
      BY <1>4, <1>9
    <2>2. RiskOf(e, Roots) # "risky" /\ p \notin IgnoredPaths /\ SafeAddition(e)
      BY <1>4, <1>5, <2>1 DEF AsksChange
    <2>3. ContentAt(p) \notin {"symlink", "binary"}
      BY <1>6, <1>7, <2>2, FileRiskFacts
    <2>4. AllStaged[p] = work[p]
      BY <2>2 DEF AllStaged
    <2>5. work[p] = "repo" \/ Kind(work[p]) = "text"
      BY <2>3 DEF ContentAt, Kind
    <2>6. Name(p) \in SafeNames \cup EnvTemplates
      BY <1>4, <2>2 DEF SafeAddition
    <2> QED BY <2>2, <2>4, <2>5, <2>6
  <1>10. ASSUME Range(p) \cap AgentParts # {}, p \notin {ManagedAgentSource, AgentMarketplace}
         PROVE  \E root \in SkillRoots(p) : Marker(root) \in Paths /\ AllStaged[Marker(root)] # Absent
    <2>1. p \in Seq(Names) /\ \A r \in R : IsRoot(r)
      BY PathNames, RootsFacts
    <2>2. AgentPlaces(p) # {}
      BY <1>10 DEF AgentPlaces, Range
    <2>3. AgentPathRisk(p, R) \notin {"block", "codex project source"}
      BY <1>6, <1>7, FileRiskFacts
    <2> HIDE DEF R, g
    <2>4. PICK r \in R : SkillRoots(p) = {r}
      BY <1>10, <2>1, <2>2, <2>3, AgentRiskFacts
    <2>5. Marker(r) \in Paths /\ AllStaged[Marker(r)] # Absent
      BY <1>1, <1>2, <2>4, MarkerStays DEF R
    <2> QED BY <2>4, <2>5
  <1> QED BY <1>3, <1>8, <1>9, <1>10 DEF Accounted

(* What is committed on the screen's word alone can be accounted for: no   *)
(* private file, nothing new that is not a text or repository with a       *)
(* recognised name, no agent's file without its skill.                     *)
THEOREM AdviceCorrect == Spec => []AdviceIsAccountedFor
  BY AdviceIsFounded, TreesInvariant, PTL

-----------------------------------------------------------------------------
(* What staging all on the screen's word leaves *)

Excused(p) == AgentPathRisk(p, {}) # "block"
HasSkill(p) == ~Home /\ \E r \in SkillRoots(p) : InSkill(p, r)

(* With next staged over the last commit: the files are staged as they     *)
(* are; what is added or changed, and what goes while something is added,  *)
(* is not what the screen blocks.                                          *)
FilesStaged(next) ==
    \A p \in Paths : next[p] = work[p] \/ (next[p] = Absent /\ head[p] = Absent /\ p \in IgnoredPaths)

ChangesPass(next) ==
    \A p \in Paths : next[p] \notin {Absent, head[p]} =>
        /\ ~IsSecretOrPrivate(p) /\ next[p] # "repo"
        /\ \/ Excused(p)
           \/ /\ ~Home
              /\ \E r \in SkillRoots(p) :
                    InSkill(p, r) /\ Marker(r) \in Paths /\ next[Marker(r)] # Absent

DeletionsPass(next) ==
    \A p, q \in Paths :
        head[p] # Absent /\ next[p] = Absent /\ head[q] = Absent /\ next[q] # Absent =>
            ~IsSecretOrPrivate(p) /\ (Excused(p) \/ HasSkill(p))

Passed == FilesStaged(index) /\ ChangesPass(index) /\ DeletionsPass(index)

StagedOnItsWord == told = "safe_to_stage_all" => Passed

(* The screen lets through only what passes. *)
LEMMA StagingPasses ==
    ASSUME Trees, Classify.status = "safe_to_stage_all"
    PROVE  FilesStaged(AllStaged) /\ ChangesPass(AllStaged) /\ DeletionsPass(AllStaged)
  <1>1. \A e \in Listed : /\ ~Blocks(e, Roots) /\ ~AsksEntry(e, Roots, Adds)
                          /\ ~IsStaged(e)
    BY ClassifyFacts
  <1>2. \A p \in Paths : ~Unmerged(p)
    BY <1>1, ConflictBlocks
  <1>3. index = head
    <2>1. ASSUME NEW p \in Paths
          PROVE  CodeOf(p)[1] = " "
      <3> SUFFICES ASSUME CodeOf(p)[1] # " " PROVE FALSE
        OBVIOUS
      <3>1. TrackedEntry(p) \in Listed
        BY BlankCode, IsEntry DEF Listed
      <3>2. CodeOf(p)[1] \in {"?", "!"}
        BY <1>1, <3>1, EntryFields DEF IsStaged
      <3>3. Holds(p) \/ index[p] = Absent
        BY <1>2, TreeFacts
      <3> QED BY <3>2, <3>3, CodeFacts
    <2> QED BY <2>1, IndexIsHead
  <1>4. ASSUME NEW p \in Paths
        PROVE  AllStaged[p] = IF index[p] = Absent /\ p \in IgnoredPaths THEN Absent ELSE work[p]
    BY DEF AllStaged
  <1>5. FilesStaged(AllStaged)
    BY <1>3, <1>4 DEF FilesStaged
  <1>6. Paths \subseteq Seq(Names) /\ \A r \in Roots.current \cup Roots.original : IsRoot(r)
    BY PathNames, RootsFacts
  <1>7. Home => Roots.current = {} /\ Roots.original = {}
    BY DEF Roots, BuildRepoSkillRoots
  <1>8. ASSUME NEW p \in Paths, NEW R, R \subseteq Roots.current \cup Roots.original,
               AgentPathRisk(p, R) # "block"
        PROVE  Excused(p) \/ (~Home /\ \E r \in R : r \in SkillRoots(p) /\ InSkill(p, r))
    <2>1. \A r \in R : IsRoot(r)
      BY <1>6, <1>8
    <2>2. CASE AgentPathRisk(p, {}) # "block"
      BY <2>2 DEF Excused
    <2>3. CASE \E r \in R : InSkill(p, r)
      <3>1. PICK r \in R : InSkill(p, r)
        BY <2>3
      <3>2. SkillRoots(p) = {r}
        BY <1>6, <2>1, <3>1, RootAboveIs DEF InSkill
      <3> QED BY <1>7, <1>8, <3>1, <3>2
    <2> QED BY <1>6, <1>8, <2>1, <2>2, <2>3, AgentByRoots
  <1>9. ChangesPass(AllStaged)
    <2> SUFFICES ASSUME NEW p \in Paths, AllStaged[p] \notin {Absent, head[p]}
                 PROVE  /\ ~IsSecretOrPrivate(p) /\ AllStaged[p] # "repo"
                        /\ \/ Excused(p)
                           \/ /\ ~Home
                              /\ \E r \in SkillRoots(p) :
                                    /\ InSkill(p, r) /\ Marker(r) \in Paths
                                    /\ AllStaged[Marker(r)] # Absent
      BY DEF ChangesPass
    <2>1. PICK e \in Listed : e.path = p /\ ~IsPureDeletion(e)
      BY <1>2, ChangeIsListed
    <2>2. FileRisk(p, KnownGitlink(p), Roots.current) # "block"
      BY <1>1, <2>1 DEF Blocks, RiskOf
    <2>3. KnownGitlink(p) \in BOOLEAN
      BY DEF KnownGitlink
    <2>4. /\ ~IsSecretOrPrivate(p) /\ AgentPathRisk(p, Roots.current) # "block"
          /\ ~(ContentAt(p) = "repo" /\ ~KnownGitlink(p))
      BY <2>2, <2>3, FileRiskFacts
    <2>5. AllStaged[p] # "repo"
      <3> SUFFICES ASSUME AllStaged[p] = "repo" PROVE FALSE
        OBVIOUS
      <3>1. work[p] = "repo"
        BY <1>4
      <3>2. ContentAt(p) = "repo"
        BY <3>1 DEF ContentAt, Kind
      <3>3. index[p] = "repo"
        BY <2>4, <3>2 DEF KnownGitlink, IsIndexGitlink
      <3> QED BY <1>3, <3>3
    <2>6. Excused(p) \/ (~Home /\ \E r \in Roots.current : r \in SkillRoots(p) /\ InSkill(p, r))
      BY <1>8, <2>4
    <2>7. \A r \in Roots.current : Marker(r) \in Paths /\ AllStaged[Marker(r)] # Absent
      BY <1>1, <1>2, MarkerStays
    <2> QED BY <2>4, <2>5, <2>6, <2>7
  <1>10. DeletionsPass(AllStaged)
    <2> SUFFICES ASSUME NEW p \in Paths, NEW q \in Paths, head[p] # Absent, AllStaged[p] = Absent,
                        head[q] = Absent, AllStaged[q] # Absent
                 PROVE  ~IsSecretOrPrivate(p) /\ (Excused(p) \/ HasSkill(p))
      BY DEF DeletionsPass
    <2>1. Adds
      <3>1. \E e \in Listed : IntroducesPath(e)
        BY <1>2, ChangeIsListed
      <3> QED BY <3>1 DEF Adds
    <2>2. index[p] = head[p] /\ work[p] = Absent /\ Holds(p)
      BY <1>2, <1>3, <1>4, TreeFacts
    <2>3. CodeOf(p)[1] = " " /\ CodeOf(p)[2] = "D"
      BY <2>2, CodeFacts
    <2>4. TrackedEntry(p) \in Listed
      BY <2>3, BlankCode, IsEntry DEF Listed
    <2>5. IsPureDeletion(TrackedEntry(p))
      BY <2>3, EntryFields DEF IsPureDeletion
    <2> DEFINE R == Roots.current \cup Roots.original
    <2>6. FileRisk(p, FALSE, R) # "block"
      BY <1>1, <2>1, <2>4, <2>5, EntryFields DEF AsksEntry, AsksDeletion, DeletionRiskOf
    <2>7. ~IsSecretOrPrivate(p) /\ AgentPathRisk(p, R) # "block"
      BY <2>6, FileRiskFacts
    <2> QED BY <1>8, <2>7 DEF HasSkill
  <1> QED BY <1>5, <1>9, <1>10

(* The marker of a skill that a path of one agent lies in has that skill's *)
(* root, and no other.                                                     *)
LEMMA MarkerFacts ==
    ASSUME NEW p \in Seq(Names), NEW r, IsRoot(r), InSkill(p, r)
    PROVE  SkillRoots(Marker(r)) = {r} /\ Name(Marker(r)) = "skill.md"
  <1> DEFINE m == Marker(r)
             n == Len(r)
  <1>1. r \in Seq(Names) /\ n \in Nat /\ n >= 3 /\ r[n - 2] = ".agents"
    BY DEF IsRoot
  <1>2. "skill.md" \in Names /\ "skill.md" \notin AgentParts /\ ".agents" \in AgentParts
    BY DEF Names, AgentParts
  <1>3. /\ m \in Seq(Names) /\ Len(m) = n + 1 /\ m[n + 1] = "skill.md"
        /\ \A j \in 1 .. n : m[j] = r[j]
    BY <1>1, <1>2, AppendProperties DEF Marker
  <1>4. PICK i : AgentPlaces(p) = {i}
    BY DEF InSkill
  <1>5. IsPrefix(r, p)
    BY DEF InSkill
  <1>6. n = i + 2
    BY <1>4, <1>5, OnePlace
  <1> HIDE DEF m, n
  <1>7. n <= Len(p) /\ Len(p) \in Nat /\ \A j \in 1 .. n : r[j] = p[j]
    BY <1>1, <1>5, PrefixFacts DEF n
  <1>8. AgentPlaces(m) = {i}
    <2>1. DOMAIN m = 1 .. n + 1 /\ DOMAIN p = 1 .. Len(p)
      BY <1>3
    <2>2. ASSUME NEW j \in AgentPlaces(m)
          PROVE  j = i
      <3>1. j \in 1 .. n + 1 /\ m[j] \in AgentParts
        BY <2>1, <2>2 DEF AgentPlaces
      <3>2. j # n + 1
        BY <1>2, <1>3, <3>1
      <3>3. j \in 1 .. n
        BY <1>1, <3>1, <3>2
      <3>4. j \in 1 .. Len(p) /\ p[j] = m[j]
        BY <1>1, <1>3, <1>7, <3>3
      <3> QED BY <1>4, <2>1, <3>1, <3>4 DEF AgentPlaces
    <2>3. i \in AgentPlaces(m)
      <3>1. n - 2 \in 1 .. n /\ n - 2 \in 1 .. n + 1 /\ i = n - 2
        <4>1. i \in Int
          BY <1>4, <1>7, <2>1 DEF AgentPlaces
        <4> QED BY <1>1, <1>6, <4>1
      <3> QED BY <1>1, <1>2, <1>3, <2>1, <3>1 DEF AgentPlaces
    <2> QED BY <2>2, <2>3
  <1>9. IsPrefix(r, m)
    <2>1. n <= Len(m)
      BY <1>1, <1>3
    <2> QED BY <1>1, <1>3, <2>1, PrefixFacts DEF n
  <1>10. SkillRoots(m) = {r}
    BY <1>3, <1>8, <1>9, OnePlace
  <1>11. Name(m) = "skill.md"
    BY <1>3 DEF Name, Last
  <1> QED BY <1>10, <1>11 DEF m

(* What passed is not blocked where it is staged, whatever git takes for  *)
(* a rename.                                                               *)
LEMMA WhatPassedIsNotBlocked ==
    ASSUME Trees, Passed, NoOrphans
    PROVE  Classify.status # "blocked"
  <1> SUFFICES ASSUME NEW e \in Listed, Blocks(e, Roots) PROVE FALSE
    BY ClassifyFacts
  <1>1. FilesStaged(index) /\ ChangesPass(index) /\ DeletionsPass(index)
    BY DEF Passed
  <1>2. Paths \subseteq Seq(Names) /\ \A r \in Roots.current \cup Roots.original : IsRoot(r)
    BY PathNames, RootsFacts
  <1>3. ASSUME NEW p \in Paths
        PROVE  /\ ~Unmerged(p) /\ (Holds(p) \/ index[p] = Absent) /\ ~IsNew(p)
               /\ Holds(p) => work[p] = index[p]
               /\ CodeOf(p)[2] = " "
    <2>1. index[p] = work[p] \/ (index[p] = Absent /\ head[p] = Absent /\ p \in IgnoredPaths)
      BY <1>1 DEF FilesStaged
    <2>2. ~Unmerged(p)
      <3>1. work[p] \notin DOMAIN Conflict /\ Absent \notin DOMAIN Conflict
        BY TreeFacts, PathFacts, ConflictFacts DEF Trees
      <3> QED BY <2>1, <3>1 DEF Unmerged
    <2>3. Holds(p) \/ index[p] = Absent
      BY <2>2, TreeFacts
    <2>4. ~IsNew(p)
      BY <2>1 DEF IsNew
    <2>5. Holds(p) => work[p] = index[p]
      BY <2>1, TreeFacts
    <2> QED BY <2>2, <2>3, <2>4, <2>5, CodeFacts
  <1>4. \A f \in Listed : \E p \in Paths : CodeOf(p) # Blank /\ f = TrackedEntry(p)
    BY <1>3, EntryFacts DEF Listed
  <1>5. PICK p \in Paths : CodeOf(p) # Blank /\ e = TrackedEntry(p)
    BY <1>4
  <1>6. /\ e.path = p /\ e.index = CodeOf(p)[1] /\ e.worktree = " "
        /\ CodeOf(p)[1] \in {"A", "R", "M", "D"}
    <2>1. CodeOf(p)[1] # " "
      BY <1>3, <1>5, BlankCode
    <2>2. CodeOf(p)[1] \in {"A", "R", "M", "D", " "}
      BY <1>3, CodeFacts
    <2> QED BY <1>3, <1>5, <2>1, <2>2, EntryFields
  <1>7. ~IsConflict(e)
    BY <1>6 DEF IsConflict
  <1>8. ~IsPureDeletion(e) /\ "block" \in {RiskOf(e, Roots), OriginalRiskOf(e, Roots)}
    BY <1>7 DEF Blocks
  <1>9. CodeOf(p)[1] \in {"A", "R", "M"}
    BY <1>6, <1>8 DEF IsPureDeletion
  <1>10. Holds(p) /\ index[p] # Absent /\ index[p] # head[p]
    <2>1. Holds(p) /\ index[p] # Absent
      BY <1>3, <1>9, CodeFacts, TreeFacts
    <2>2. index[p] # head[p]
      BY <1>9, <2>1, CodeFacts
    <2> QED BY <2>1, <2>2
  <1>11. ASSUME NEW q \in PathsOf(e), NEW r \in SkillRoots(q), ~Home
         PROVE  /\ HeadHas(Marker(r)) => r \in Roots.original
                /\ HeadHas(Marker(r)) /\ Marker(r) \notin DeletedMarkers(Listed) =>
                      r \in Roots.current
                /\ Marker(r) \in IntroducedMarkers(Listed) => r \in Roots.current
    <2> DEFINE changed    == UNION {SkillRoots(o) : o \in UNION {PathsOf(f) : f \in Listed}}
               original   == {root \in changed : HeadHas(Marker(root))}
               surviving  == {root \in original : Marker(root) \notin DeletedMarkers(Listed)}
               introduced == {root \in changed : Marker(root) \in IntroducedMarkers(Listed)}
    <2>1. r \in changed
      OBVIOUS
    <2>2. Roots = IF Home THEN [current |-> {}, original |-> {}]
                  ELSE [current |-> surviving \cup introduced, original |-> original]
      BY DEF Roots, BuildRepoSkillRoots
    <2> HIDE DEF changed
    <2>3. Roots.current = surviving \cup introduced /\ Roots.original = original
      BY <1>11, <2>2
    <2> QED BY <2>1, <2>3
  <1>12. p \in PathsOf(e)
    <2>1. p # None
      BY PathFacts DEF Trees
    <2> QED BY <1>6, <2>1 DEF PathsOf
  <1>13. RiskOf(e, Roots) # "block"
    <2>1. /\ ~IsSecretOrPrivate(p) /\ index[p] # "repo"
          /\ \/ Excused(p)
             \/ /\ ~Home
                /\ \E r \in SkillRoots(p) :
                      InSkill(p, r) /\ Marker(r) \in Paths /\ index[Marker(r)] # Absent
      BY <1>1, <1>10 DEF ChangesPass
    <2>2. ContentAt(p) # "repo"
      <3>1. work[p] = index[p]
        BY <1>3, <1>10
      <3> QED BY <2>1, <3>1 DEF ContentAt, Kind
    <2>3. AgentPathRisk(p, Roots.current) # "block"
      <3>1. CASE Excused(p)
        BY <1>2, <3>1, AgentByRoots DEF Excused
      <3>2. ASSUME ~Home, NEW r \in SkillRoots(p), InSkill(p, r), Marker(r) \in Paths,
                   index[Marker(r)] # Absent
            PROVE  r \in Roots.current
        <4> DEFINE m == Marker(r)
        <4>1. IsRoot(r)
          BY <1>2, SkillRootsFacts
        <4>2. SkillRoots(m) = {r} /\ Name(m) = "skill.md"
          BY <1>2, <3>2, <4>1, MarkerFacts
        <4> HIDE DEF m
        <4>3. m \in Paths /\ index[m] # Absent /\ Holds(m)
          BY <1>3, <3>2 DEF m
        <4>4. CASE head[m] # Absent
          <5>1. m \notin DeletedMarkers(Listed)
            <6> SUFFICES ASSUME m \in DeletedMarkers(Listed) PROVE FALSE
              OBVIOUS
            <6>1. PICK f \in Listed :
                     \/ m = f.path /\ "D" \in {f.index, f.worktree}
                     \/ m = f.original_path /\ "R" \in {f.index, f.worktree}
              BY DEF DeletedMarkers
            <6>2. PICK o \in Paths : CodeOf(o) # Blank /\ f = TrackedEntry(o)
              BY <1>4
            <6>3. f.index = CodeOf(o)[1] /\ f.worktree = " " /\ f.path = o
              BY <1>3, <6>2, EntryFields
            <6>4. CASE m = o /\ CodeOf(o)[1] = "D"
              BY <4>3, <6>4, CodeFacts
            <6>5. CASE m = f.original_path /\ CodeOf(o)[1] = "R"
              <7>1. m = Origin(o, IndexRenames) /\ Comes(o, IndexRenames)
                BY <6>2, <6>5, EntryFields, CodeFacts
              <7>2. index[m] = Absent
                BY <7>1, RenameFacts
              <7> QED BY <4>3, <7>2
            <6> QED BY <6>1, <6>3, <6>4, <6>5
          <5>2. HeadHas(m)
            BY <4>3, <4>4 DEF HeadHas
          <5> QED BY <1>11, <1>12, <3>2, <5>1, <5>2 DEF m
        <4>5. CASE head[m] = Absent
          <5>1. CodeOf(m)[1] \in {"A", "R"}
            BY <4>3, <4>5, CodeFacts
          <5>2. TrackedEntry(m) \in Listed
            BY <4>3, <5>1, BlankCode, IsEntry DEF Listed
          <5>3. IsStaged(TrackedEntry(m)) /\ IntroducesPath(TrackedEntry(m)) /\ TrackedEntry(m).path = m
            BY <5>1, EntryFields DEF IsStaged, IntroducesPath
          <5>4. m \in IntroducedMarkers(Listed)
            BY <4>2, <5>2, <5>3 DEF IntroducedMarkers
          <5> QED BY <1>11, <1>12, <3>2, <5>4 DEF m
        <4> QED BY <4>4, <4>5
      <3>3. Excused(p) \/ \E r \in Roots.current : InSkill(p, r)
        BY <2>1, <3>2
      <3> QED BY <1>2, <3>1, <3>3, AgentByRoots
    <2>4. KnownGitlink(p) \in BOOLEAN
      BY DEF KnownGitlink
    <2>5. FileRisk(p, KnownGitlink(p), Roots.current) # "block"
      BY <2>1, <2>2, <2>3, <2>4, FileRiskFacts
    <2> QED BY <1>6, <2>5 DEF RiskOf
  <1>14. OriginalRiskOf(e, Roots) # "block"
    <2>1. CASE CodeOf(p)[1] # "R"
      <3>1. e.original_path = None
        BY <1>5, <2>1, EntryFields
      <3> QED BY <3>1 DEF OriginalRiskOf
    <2>2. CASE CodeOf(p)[1] = "R"
      <3> DEFINE o == Origin(p, IndexRenames)
      <3>1. e.original_path = o
        BY <1>5, <2>2, EntryFields
      <3>2. <<o, p>> \in IndexRenames
        BY <2>2, CodeFacts, RenameFacts
      <3> HIDE DEF o
      <3>3. o \in Paths /\ head[o] # Absent /\ index[o] = Absent /\ head[p] = Absent
        BY <3>2, RenameFacts
      <3>4. ~IsSecretOrPrivate(o) /\ (Excused(o) \/ HasSkill(o))
        BY <1>1, <1>10, <3>3 DEF DeletionsPass
      <3>5. ContentAt(o) # "repo"
        <4>1. work[o] = Absent
          BY <1>1, <3>3 DEF FilesStaged
        <4> QED BY <4>1 DEF ContentAt, Kind, Absent
      <3>6. o # None
        BY <3>3, PathFacts DEF Trees
      <3>7. o \in PathsOf(e)
        BY <3>1, <3>6 DEF PathsOf
      <3>8. AgentPathRisk(o, Roots.original) # "block"
        <4>1. Excused(o) \/ \E r \in Roots.original : InSkill(o, r)
          <5>1. CASE HasSkill(o)
            <6>1. PICK r \in SkillRoots(o) : InSkill(o, r) /\ ~Home
              BY <5>1 DEF HasSkill
            <6>2. HeadHas(Marker(r))
              BY <3>3, <6>1 DEF NoOrphans
            <6> QED BY <1>11, <3>7, <6>1, <6>2
          <5> QED BY <3>4, <5>1
        <4> QED BY <1>2, <3>3, <4>1, AgentByRoots DEF Excused
      <3>9. KnownGitlink(o) \in BOOLEAN
        BY DEF KnownGitlink
      <3>10. FileRisk(o, KnownGitlink(o), Roots.original) # "block"
        BY <3>4, <3>5, <3>8, <3>9, FileRiskFacts
      <3> QED BY <3>1, <3>6, <3>10 DEF OriginalRiskOf
    <2> QED BY <2>1, <2>2
  <1> QED BY <1>8, <1>13, <1>14

LEMMA StagedInit == Init => StagedOnItsWord
  BY ScreenAssumption DEF Init, StagedOnItsWord

LEMMA StagedStep == Trees /\ StagedOnItsWord /\ [Work]_vars => StagedOnItsWord'
  <1> SUFFICES ASSUME Trees, StagedOnItsWord, [Work]_vars, told' = "safe_to_stage_all"
               PROVE  Passed'
    BY DEF StagedOnItsWord
  <1>1. CASE UNCHANGED vars
    BY <1>1, SameOrder
    DEF vars, trees, StagedOnItsWord, Passed, FilesStaged, ChangesPass, DeletionsPass
  <1>2. CASE StageAll
    <2>1. /\ index' = AllStaged /\ Classify.status = "safe_to_stage_all"
          /\ order' = order /\ head' = head /\ work' = work
      BY <1>2 DEF StageAll
    <2>2. FilesStaged(AllStaged) /\ ChangesPass(AllStaged) /\ DeletionsPass(AllStaged)
      BY <2>1, StagingPasses
    <2> QED BY <2>1, <2>2, SameOrder DEF Passed, FilesStaged, ChangesPass, DeletionsPass
  <1>3. CASE Work /\ ~StageAll
    <2>1. told' = None
      BY <1>3 DEF Work, Edit, Stage, Unstage, MergeConflict, Commit
    <2> QED BY <2>1, ScreenAssumption
  <1> QED BY <1>1, <1>2, <1>3

(* Staging everything on the screen's word never makes what the screen     *)
(* then blocks, as long as no file under a skill directory was committed   *)
(* without the SKILL.md that makes it a skill's.                           *)
THEOREM StageAllCorrect == Spec => []StageAllIsNotBlocked
  <1>1. Trees /\ StagedOnItsWord => StageAllIsNotBlocked
    BY WhatPassedIsNotBlocked DEF StagedOnItsWord, StageAllIsNotBlocked
  <1>2. Spec => []StagedOnItsWord
    <2>1. Init => StagedOnItsWord
      BY StagedInit
    <2>2. Trees /\ StagedOnItsWord /\ [Work]_vars => StagedOnItsWord'
      BY StagedStep
    <2> QED BY <2>1, <2>2, TreesInvariant, PTL DEF Spec
  <1> QED BY <1>1, <1>2, TreesInvariant, PTL
=============================================================================
