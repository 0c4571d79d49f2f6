--------------------------- MODULE VerilogProofs ---------------------------
(***************************************************************************)
(* Proofs about NameScope and Verilog2001.                                 *)
(*                                                                         *)
(* NameScope: the names that it gives are distinct, and NameOccupiedErr    *)
(* has one of the three causes that OccupiedExplained names.  Neither is   *)
(* inductive.  What is: every entry of a level is a keyword's, or that of  *)
(* an object which has the name and this home, and every object whose      *)
(* level is there has its entry (Entries, Registered).  An object without  *)
(* a name then finds its candidate unoccupied or somebody else's, never    *)
(* its own, and the name it is given is new in its level and around it.    *)
(* And a number that was given is not greater than the counter of its      *)
(* prefix in its level (Counted): get_child returns nothing, so a counter  *)
(* changes only in its own level, and there it grows.                      *)
(*                                                                         *)
(* Verilog2001: SameNameNeverWritten, ModulesInOrder and FilesComplete,    *)
(* for every design.  The invariant, VerilogInv, has six parts:            *)
(*   Struct    the stack is a path of netlists, each waiting for the one   *)
(*             above it; a netlist is named in the global level and what   *)
(*             is in it is not; the modules of the components that a frame *)
(*             is done with are there;                                     *)
(*   ClashInv  the number 0 of a prefix that the global level has counted  *)
(*             is taken there, so two netlists of one name cannot both     *)
(*             have an instance;                                           *)
(*   TextInv   what is written is a series of whole definitions, each of   *)
(*             the parts of its netlist in the order of Body, but for one  *)
(*             that is not ended yet;                                      *)
(*   PartsInv  the parts of a netlist are named all, not at all, or as far *)
(*             as its body is written; those with a name differ in it;     *)
(*   Balance   the definitions of a netlist are as many as the components  *)
(*             in definitions need, and those that frames will need;       *)
(*   FilesInv  the directories there are, the file that is open, and so    *)
(*             which definitions are in a file.                            *)
(***************************************************************************)
EXTENDS Verilog2001, UniqueSeqProofs, FiniteSetTheorems
-----------------------------------------------------------------------------
(* The names (NameScope). *)

ItemMaps == UNION {[D -> Objects \cup {KeyWord}] : D \in SUBSET Name}

CounterMaps == UNION {[D -> Nat] : D \in SUBSET Name}

NameMaps == UNION {[D -> Name] : D \in SUBSET Objects}

LevelsType ==
  /\ items \in Seq(ItemMaps)
  /\ cntrs \in Seq(CounterMaps)
  /\ Len(cntrs) = Len(items) /\ Len(items) > 0

ObjectsType ==
  /\ all_names \in NameMaps /\ asked \in NameMaps
  /\ DOMAIN all_names \subseteq DOMAIN asked
  /\ home \in [Objects -> 0 .. Len(items)]
  /\ \A o \in Objects \ DOMAIN all_names : home[o] = 0
  /\ order \in Seq(Objects) /\ Elements(order) = DOMAIN all_names

(* An entry of a level is a keyword's, or that of an object of this level  *)
(* with this name.                                                         *)
Entries ==
  \A l \in 1 .. Len(items) : \A n \in DOMAIN items[l] :
    LET o == items[l][n] IN
      IF o = KeyWord THEN n \in Keywords
      ELSE o \in DOMAIN all_names /\ home[o] = l /\ Folded(all_names[o]) = n

(* An object whose level is there has its entry in that level. *)
Registered ==
  \A o \in DOMAIN all_names : home[o] # 0 =>
    /\ Folded(all_names[o]) \in DOMAIN items[home[o]]
    /\ items[home[o]][Folded(all_names[o])] = o

(* Two objects of the same name: the inner one was named first. *)
Shadowing ==
  \A a, b \in DOMAIN all_names :
    a # b /\ home[a] # 0 /\ home[b] >= home[a] /\ Folded(all_names[a]) = Folded(all_names[b]) =>
      home[b] > home[a] /\ Before(order, b, a)

(* A number that was given was counted in the level of the object. *)
Counted ==
  \A o \in DOMAIN all_names : home[o] # 0 /\ asked[o] # all_names[o] =>
    \E i \in Nat :
      /\ all_names[o] = WithNumber(asked[o], i)
      /\ i <= Counter(home[o], WithUnderscore(asked[o]))

IInv ==
  /\ LevelsType /\ ObjectsType /\ Entries /\ Registered /\ Shadowing /\ Counted
  /\ OccupiedExplained

Shape == LevelsType /\ ObjectsType /\ Entries /\ Registered /\ Shadowing /\ Counted
-----------------------------------------------------------------------------
(* The greatest of some numbers up to l is one of them. *)
LEMMA Greatest ==
  ASSUME NEW l \in Nat, NEW S \in SUBSET (1 .. l), S # {}
  PROVE  Max(S) \in S /\ \A k \in S : Max(S) >= k
<1> DEFINE T == {l - k : k \in S}
<1>1. T \in SUBSET Nat /\ T # {}
  <2>1. \A k \in S : k \in 1 .. l /\ l - k \in Nat
    OBVIOUS
  <2> QED BY <2>1
<1>2. PICK x \in T : \A y \in T : x <= y
  <2> HIDE DEF T
  <2> QED BY <1>1, LeastNumber
<1>3. PICK m \in S : x = l - m
  BY <1>2
<1>4. \A k \in S : m >= k
  <2> SUFFICES ASSUME NEW k \in S PROVE m >= k
    OBVIOUS
  <2>1. l - m <= l - k
    BY <1>2, <1>3
  <2> QED BY <2>1
<1> QED
  BY <1>4 DEF Max

(* Append ends in the item; no sequence does without one. *)
LEMMA AppendTwice ==
  ASSUME NEW S, NEW s \in Seq(S), NEW i \in S, NEW t \in Seq(S), NEW j \in S
  PROVE  /\ Append(s, i) # << >>
         /\ Append(s, i) = Append(t, j) => i = j /\ s = t
<1>1. Append(s, i) # << >>
  <2>1. Len(Append(s, i)) = Len(s) + 1 /\ Len(s) \in Nat /\ Len(<< >>) = 0
    OBVIOUS
  <2>2. Len(Append(s, i)) # 0
    BY <2>1
  <2> QED
    BY <2>1, <2>2, Zenon
<1>2. ASSUME Append(s, i) = Append(t, j)
      PROVE  i = j /\ s = t
  BY <1>2
<1> QED
  BY <1>1, <1>2

(* The three fields of a name. *)
LEMMA NameFields ==
  ASSUME NEW n \in Name
  PROVE  /\ n = <<n[1], n[2], n[3]>>
         /\ n[1] \in Stems /\ n[2] \in Seq(Nat) /\ n[3] \in BOOLEAN
  BY DEF Name

(* Folding a name, opening it and numbering it give names again. *)
LEMMA NameFacts ==
  ASSUME NEW n \in Name
  PROVE  /\ Folded(n) \in Name
         /\ WithUnderscore(n) \in Name
         /\ \A i \in Nat : WithNumber(n, i) \in Name
<1>1. n[1] \in Stems /\ n[2] \in Seq(Nat) /\ n[3] \in BOOLEAN
  BY NameFields
<1>2. Lower[n[1]] \in Stems
  BY <1>1, LowerAssumption
<1>3. ASSUME NEW i \in Nat PROVE WithNumber(n, i) \in Name
  <2>1. Append(n[2], i) \in Seq(Nat)
    BY <1>1
  <2> QED BY <1>1, <2>1 DEF WithNumber, Name
<1> QED
  BY <1>1, <1>2, <1>3 DEF Folded, WithUnderscore, Name

(* A numbered name is no keyword, in lower case neither, and it tells its  *)
(* number and its prefix.                                                  *)
LEMMA NumberedNames ==
  ASSUME NEW n \in Name, NEW i \in Nat
  PROVE  /\ Folded(WithNumber(n, i)) \notin Keywords
         /\ \A m \in Name, j \in Nat : WithNumber(n, i) = WithNumber(m, j) =>
              i = j /\ WithUnderscore(n) = WithUnderscore(m)
<1>1. n[2] \in Seq(Nat)
  BY NameFields
<1>2. Append(n[2], i) # << >>
  BY <1>1, AppendTwice
<1>3. Folded(WithNumber(n, i))[2] = Append(n[2], i)
  BY DEF Folded, WithNumber
<1>4. Folded(WithNumber(n, i)) \notin Keywords
  BY <1>2, <1>3, KeywordsAssumption
<1>5. ASSUME NEW m \in Name, NEW j \in Nat, WithNumber(n, i) = WithNumber(m, j)
      PROVE  i = j /\ WithUnderscore(n) = WithUnderscore(m)
  <2>1. m[2] \in Seq(Nat)
    BY NameFields
  <2>2. n[1] = m[1] /\ Append(n[2], i) = Append(m[2], j)
    BY <1>5 DEF WithNumber
  <2>3. i = j /\ n[2] = m[2]
    <3>1. Append(n[2], i) = Append(m[2], j)
      BY <2>2
    <3> DEFINE Numbers == Nat
    <3>2. n[2] \in Seq(Numbers) /\ m[2] \in Seq(Numbers) /\ i \in Numbers /\ j \in Numbers
      BY <1>1, <2>1
    <3> HIDE DEF Numbers
    <3> QED BY <3>1, <3>2, AppendTwice
  <2> QED
    BY <2>2, <2>3 DEF WithUnderscore
<1> QED
  BY <1>4, <1>5

(* An entry put into a map from D to R, or from a part of it. *)
LEMMA PutType ==
  ASSUME NEW D, NEW R, NEW f \in UNION {[E -> R] : E \in SUBSET D}, NEW k \in D, NEW v \in R
  PROVE  WithEntry(k, v, f) \in UNION {[E -> R] : E \in SUBSET D}
<1>1. PICK E \in SUBSET D : f \in [E -> R]
  OBVIOUS
<1>2. WithEntry(k, v, f) = [x \in {k} \cup E |-> IF x = k THEN v ELSE f[x]]
  BY <1>1 DEF WithEntry
<1>3. WithEntry(k, v, f) \in [{k} \cup E -> R]
  BY <1>1, <1>2
<1> QED
  BY <1>3

(* A counter whose level has no child is the only one to grow. *)
LEMMA CounterGrows ==
  ASSUME LevelsType, NEW l \in 1 .. Len(items), NEW p \in Name,
         __incrPrefixCntrsForChilds(l, p, Counter(l, p))
  PROVE  /\ cntrs' \in Seq(CounterMaps) /\ Len(cntrs') = Len(cntrs)
         /\ Counter(l, p) + 1 \in Nat
         /\ Counter(l, p)' = Counter(l, p) + 1
         /\ \A m \in 1 .. Len(items) : \A q : Counter(m, q)' >= Counter(m, q)
<1>1. Followers(l, p) = {}
  <2> SUFFICES ASSUME NEW m \in Followers(l, p) PROVE FALSE
    OBVIOUS
  <2>1. m \in l + 1 .. Len(items) /\ \A k \in l .. m - 1 : get_child(k) = k + 1
    BY DEF Followers
  <2>2. l \in l .. m - 1 /\ get_child(l) = 0
    BY <2>1 DEF get_child, LevelsType
  <2> QED
    BY <2>1, <2>2
<1>2. /\ DOMAIN cntrs = 1 .. Len(items)
      /\ \A m \in 1 .. Len(items) : cntrs[m] \in CounterMaps
  BY DEF LevelsType
<1>3. \A m \in 1 .. Len(items) : /\ cntrs[m] = [q \in DOMAIN cntrs[m] |-> cntrs[m][q]]
                                /\ DOMAIN cntrs[m] \subseteq Name
                                /\ \A q \in DOMAIN cntrs[m] : cntrs[m][q] \in Nat
  BY <1>2 DEF CounterMaps
<1>4. \A m \in 1 .. Len(items) : \A q : Counter(m, q) \in Nat \cup {-1}
  BY <1>3 DEF Counter
<1>5. Counter(l, p) + 1 \in Nat
  <2>1. Counter(l, p) \in Nat \cup {-1}
    BY <1>4
  <2> QED BY <2>1
<1> DEFINE c == Counter(l, p) + 1
           new == WithEntry(p, c, cntrs[l])
<1>c. c = Counter(l, p) + 1
  OBVIOUS
<1>6. cntrs' = [m \in 1 .. Len(items) |-> IF m = l THEN new ELSE cntrs[m]]
  BY <1>1, <1>2 DEF __incrPrefixCntrsForChilds
<1>7. /\ DOMAIN new = {p} \cup DOMAIN cntrs[l] /\ new[p] = c
      /\ \A q \in DOMAIN cntrs[l] \ {p} : new[q] = cntrs[l][q]
  <2> HIDE DEF c
  <2> QED BY DEF WithEntry
<1>8. new \in CounterMaps
  <2>1. cntrs[l] \in CounterMaps
    BY <1>2
  <2> HIDE DEF c
  <2> QED BY <1>5, <1>c, <2>1, PutType DEF CounterMaps
<1> HIDE DEF new, c
<1>9. \A m \in 1 .. Len(items) : cntrs'[m] \in CounterMaps
  BY <1>2, <1>6, <1>8
<1>10. cntrs' \in Seq(CounterMaps) /\ Len(cntrs') = Len(cntrs)
  <2>1. Len(items) \in Nat /\ Len(cntrs) = Len(items)
    BY DEF LevelsType
  <2>2. cntrs' \in [1 .. Len(items) -> CounterMaps]
    BY <1>6, <1>9
  <2> QED BY <2>1, <2>2
<1>11. cntrs'[l] = new /\ \A m \in 1 .. Len(items) : m # l => cntrs'[m] = cntrs[m]
  BY <1>6
<1>12. Counter(l, p)' = c
  BY <1>7, <1>11 DEF Counter
<1>13. ASSUME NEW m \in 1 .. Len(items), NEW q
       PROVE  Counter(m, q)' >= Counter(m, q)
  <2>0. Counter(m, q) \in Nat \cup {-1}
    BY <1>4
  <2>1. CASE m # l
    <3>1. Counter(m, q)' = Counter(m, q)
      BY <1>11, <2>1 DEF Counter
    <3> QED BY <2>0, <3>1
  <2>2. CASE m = l /\ q = p
    <3>1. Counter(m, q)' = Counter(m, q) + 1
      BY <1>12, <1>c, <2>2
    <3> QED BY <2>0, <3>1
  <2>3. CASE m = l /\ q # p
    <3>1. Counter(m, q)' = Counter(m, q)
      BY <1>7, <1>11, <2>3 DEF Counter
    <3> QED BY <2>0, <3>1
  <2> QED BY <2>1, <2>2, <2>3
<1> QED
  BY <1>5, <1>10, <1>12, <1>13, <1>c

(* CanRegister of an object without a name: nothing has the name, neither  *)
(* in the level nor around it.                                             *)
LEMMA CandidateFree ==
  ASSUME LevelsType, Entries, NEW obj \in Objects \ DOMAIN all_names,
         NEW l \in 1 .. Len(items), NEW n, CanRegister(l, n, obj)
  PROVE  \A k \in 1 .. l : Folded(n) \notin DOMAIN items[k]
<1> SUFFICES ASSUME holders(l, Folded(n)) # {} PROVE FALSE
  BY DEF holders
<1> DEFINE ls == holders(l, Folded(n))
           at == Max(ls)
<1>1. l \in Nat /\ ls \in SUBSET (1 .. l) /\ ls # {} /\ Len(items) \in Nat
  BY DEF holders, LevelsType
<1>2. at \in ls
  <2> HIDE DEF ls
  <2> QED BY <1>1, Greatest
<1>3. items[at][Folded(n)] = obj
  BY <1>1 DEF CanRegister
<1>4. at \in 1 .. Len(items) /\ Folded(n) \in DOMAIN items[at]
  BY <1>1, <1>2 DEF holders
<1> HIDE DEF at, ls
<1>5. obj # KeyWord
  BY ObjectsAssumption
<1> QED
  BY <1>3, <1>4, <1>5 DEF Entries

(* What registering a name does to the levels. *)
LEMMA RegisterFacts ==
  ASSUME LevelsType, NEW obj \in Objects, NEW l \in 1 .. Len(items), NEW n \in Name,
         __registerName(l, n, obj)
  PROVE  /\ items' \in Seq(ItemMaps) /\ Len(items') = Len(items)
         /\ \A k \in 1 .. Len(items) : k # l => items'[k] = items[k]
         /\ items'[l] = WithEntry(Folded(n), obj, items[l])
<1>1. Len(items) \in Nat /\ DOMAIN items = 1 .. Len(items)
  BY DEF LevelsType
<1>2. items[l] \in ItemMaps /\ \A k \in 1 .. Len(items) : items[k] \in ItemMaps
  BY DEF LevelsType
<1> DEFINE new == WithEntry(Folded(n), obj, items[l])
<1>3. new \in ItemMaps
  <2>1. Folded(n) \in Name /\ obj \in Objects \cup {KeyWord}
    BY NameFacts
  <2> QED BY <1>2, <2>1, PutType DEF ItemMaps
<1>4. items' = [items EXCEPT ![l] = new]
  BY DEF __registerName
<1> HIDE DEF new
<1>5. items' = [k \in 1 .. Len(items) |-> IF k = l THEN new ELSE items[k]]
  BY <1>1, <1>4
<1>6. items' \in [1 .. Len(items) -> ItemMaps]
  BY <1>2, <1>3, <1>5
<1>7. items' \in Seq(ItemMaps) /\ Len(items') = Len(items)
  BY <1>1, <1>6
<1> QED
  BY <1>5, <1>7 DEF new

(* Giving a new object a name that is free keeps every part; what is left  *)
(* to show of the number is that it was counted.                           *)
LEMMA GiveKeeps ==
  ASSUME Shape, NEW obj \in Objects \ DOMAIN all_names,
         NEW l \in 1 .. Len(items), NEW m \in Name, NEW n \in Name,
         NEW p, p = WithUnderscore(n),
         CanRegister(l, m, obj), Give(l, m, obj),
         asked' = WithEntry(obj, n, asked),
         cntrs' \in Seq(CounterMaps), Len(cntrs') = Len(cntrs),
         \A k \in 1 .. Len(items) : \A q : Counter(k, q) <= Counter(k, q)',
         \A k \in 1 .. Len(items) : \A q : Counter(k, q) \in Int /\ Counter(k, q)' \in Int,
         m # n => \E i \in Nat : m = WithNumber(n, i) /\ i <= Counter(l, p)'
  PROVE  Shape'
<1> USE DEF Shape
<1>1. /\ items' \in Seq(ItemMaps) /\ Len(items') = Len(items)
      /\ \A k \in 1 .. Len(items) : k # l => items'[k] = items[k]
      /\ items'[l] = WithEntry(Folded(m), obj, items[l])
  BY RegisterFacts DEF Give
<1>2. /\ DOMAIN items'[l] = {Folded(m)} \cup DOMAIN items[l]
      /\ items'[l][Folded(m)] = obj
      /\ \A x \in DOMAIN items[l] \ {Folded(m)} : items'[l][x] = items[l][x]
  BY <1>1 DEF WithEntry
<1>3. /\ DOMAIN all_names' = {obj} \cup DOMAIN all_names
      /\ all_names'[obj] = m
      /\ \A o \in DOMAIN all_names : all_names'[o] = all_names[o]
  <2>1. all_names' = WithEntry(obj, m, all_names)
    BY DEF Give
  <2> QED BY <2>1 DEF WithEntry
<1>4. /\ DOMAIN asked' = {obj} \cup DOMAIN asked
      /\ asked'[obj] = n
      /\ \A o \in DOMAIN all_names : asked'[o] = asked[o]
  BY DEF ObjectsType, WithEntry
<1>5. /\ home' = [home EXCEPT ![obj] = l]
      /\ home \in [Objects -> 0 .. Len(items)]
      /\ Len(items) \in Nat
  BY DEF Give, ObjectsType, LevelsType
<1>6. /\ home'[obj] = l
      /\ \A o \in DOMAIN all_names : home'[o] = home[o]
      /\ \A o \in DOMAIN all_names : o \in Objects /\ home[o] \in 0 .. Len(items)
      /\ home[obj] = 0
  BY <1>5 DEF ObjectsType, NameMaps
<1>7. \A k \in 1 .. l : Folded(m) \notin DOMAIN items[k]
  BY CandidateFree
<1>8. LevelsType'
  BY <1>1 DEF LevelsType
<1>9. order' = Append(order, obj) /\ obj \notin Elements(order) /\ order \in Seq(Objects)
  BY DEF Give, ObjectsType
<1>10. ObjectsType'
  <2>1. all_names' \in NameMaps
    <3>1. all_names' = WithEntry(obj, m, all_names) /\ all_names \in NameMaps
      BY DEF Give, ObjectsType
    <3> QED BY <3>1, PutType DEF NameMaps
  <2>2. asked' \in NameMaps
    <3>1. asked \in NameMaps
      BY DEF ObjectsType
    <3> QED BY <3>1, PutType DEF NameMaps
  <2>3. DOMAIN all_names' \subseteq DOMAIN asked'
    BY <1>3, <1>4 DEF ObjectsType
  <2>4. home' \in [Objects -> 0 .. Len(items')]
    BY <1>1, <1>5
  <2>5. \A o \in Objects \ DOMAIN all_names' : home'[o] = 0
    BY <1>3, <1>5 DEF ObjectsType
  <2>6. order' \in Seq(Objects) /\ Elements(order') = DOMAIN all_names'
    BY <1>3, <1>9, AppendFacts DEF ObjectsType
  <2> QED BY <2>1, <2>2, <2>3, <2>4, <2>5, <2>6 DEF ObjectsType
<1>11. Entries'
  <2> SUFFICES ASSUME NEW k \in 1 .. Len(items), NEW x \in DOMAIN items'[k]
               PROVE  IF items'[k][x] = KeyWord THEN x \in Keywords
                      ELSE /\ items'[k][x] \in DOMAIN all_names'
                           /\ home'[items'[k][x]] = k
                           /\ Folded(all_names'[items'[k][x]]) = x
    BY <1>1 DEF Entries
  <2>1. CASE k = l /\ x = Folded(m)
    <3>1. obj # KeyWord
      BY ObjectsAssumption
    <3> QED BY <1>2, <1>3, <1>6, <2>1, <3>1
  <2>2. CASE ~ (k = l /\ x = Folded(m))
    <3>1. x \in DOMAIN items[k] /\ items'[k][x] = items[k][x]
      BY <1>1, <1>2, <2>2
    <3>2. CASE items[k][x] = KeyWord
      BY <3>1, <3>2 DEF Entries
    <3>3. CASE items[k][x] # KeyWord
      <4>1. /\ items[k][x] \in DOMAIN all_names
            /\ home[items[k][x]] = k
            /\ Folded(all_names[items[k][x]]) = x
        BY <3>1, <3>3 DEF Entries
      <4> QED BY <1>3, <1>6, <3>1, <3>3, <4>1
    <3> QED BY <3>2, <3>3
  <2> QED BY <2>1, <2>2
<1>12. Registered'
  <2> SUFFICES ASSUME NEW o \in DOMAIN all_names', home'[o] # 0
               PROVE  /\ Folded(all_names'[o]) \in DOMAIN items'[home'[o]]
                      /\ items'[home'[o]][Folded(all_names'[o])] = o
    BY DEF Registered
  <2>1. CASE o = obj
    BY <1>2, <1>3, <1>6, <2>1
  <2>2. CASE o # obj
    <3>1. o \in DOMAIN all_names /\ all_names'[o] = all_names[o] /\ home'[o] = home[o]
      BY <1>3, <1>6, <2>2
    <3>2. /\ home[o] \in 1 .. Len(items)
          /\ Folded(all_names[o]) \in DOMAIN items[home[o]]
          /\ items[home[o]][Folded(all_names[o])] = o
      BY <1>6, <3>1 DEF Registered
    <3>3. CASE home[o] # l
      BY <1>1, <3>1, <3>2, <3>3
    <3>4. CASE home[o] = l
      <4>1. Folded(all_names[o]) # Folded(m)
        BY <1>7, <3>2, <3>4
      <4> QED BY <1>2, <3>1, <3>2, <3>4, <4>1
    <3> QED BY <3>3, <3>4
  <2> QED BY <2>1, <2>2
<1>13. Shadowing'
  <2> SUFFICES ASSUME NEW a \in DOMAIN all_names', NEW b \in DOMAIN all_names',
                      a # b, home'[a] # 0, home'[b] >= home'[a],
                      Folded(all_names'[a]) = Folded(all_names'[b])
               PROVE  home'[b] > home'[a] /\ Before(order', b, a)
    BY DEF Shadowing
  <2>1. CASE a = obj
    <3>1. /\ b \in DOMAIN all_names /\ home'[b] = home[b] /\ all_names'[b] = all_names[b]
          /\ home'[a] = l /\ all_names'[a] = m /\ home[b] \in 0 .. Len(items)
      BY <1>3, <1>6, <2>1
    <3>2. Folded(m) \in DOMAIN items[home[b]]
      BY <3>1 DEF Registered
    <3>3. home[b] \notin 1 .. l
      BY <1>7, <3>2
    <3>4. home'[b] > home'[a]
      BY <3>1, <3>3
    <3>5. In(b, order)
      BY <3>1 DEF In, ObjectsType
    <3> QED BY <1>9, <2>1, <3>4, <3>5, AppendFacts
  <2>2. CASE b = obj
    <3>1. /\ a \in DOMAIN all_names /\ home'[a] = home[a] /\ all_names'[a] = all_names[a]
          /\ home'[b] = l /\ all_names'[b] = m /\ home[a] \in 0 .. Len(items)
      BY <1>3, <1>6, <2>2
    <3>2. Folded(m) \in DOMAIN items[home[a]]
      BY <3>1 DEF Registered
    <3>3. home[a] \in 1 .. l
      BY <3>1
    <3> QED BY <1>7, <3>2, <3>3
  <2>3. CASE a # obj /\ b # obj
    <3>1. /\ a \in DOMAIN all_names /\ home'[a] = home[a] /\ all_names'[a] = all_names[a]
          /\ b \in DOMAIN all_names /\ home'[b] = home[b] /\ all_names'[b] = all_names[b]
      BY <1>3, <1>6, <2>3
    <3>2. home[b] > home[a] /\ Before(order, b, a)
      BY <3>1 DEF Shadowing
    <3> QED BY <1>9, <3>1, <3>2, AppendFacts
  <2> QED BY <2>1, <2>2, <2>3
<1>14. Counted'
  <2> SUFFICES ASSUME NEW o \in DOMAIN all_names', home'[o] # 0, asked'[o] # all_names'[o],
                      NEW k, k = home'[o], NEW q, q = WithUnderscore(asked'[o])
               PROVE  \E i \in Nat :
                        all_names'[o] = WithNumber(asked'[o], i) /\ i <= Counter(k, q)'
    BY DEF Counted, Counter, WithUnderscore
  <2>1. CASE o = obj
    BY <1>3, <1>4, <1>6, <2>1
  <2>2. CASE o # obj
    <3>1. /\ o \in DOMAIN all_names /\ all_names'[o] = all_names[o] /\ home'[o] = home[o]
          /\ asked'[o] = asked[o] /\ home[o] \in 1 .. Len(items)
      BY <1>3, <1>4, <1>6, <2>2
    <3>2. PICK i \in Nat : all_names[o] = WithNumber(asked[o], i) /\ i <= Counter(k, q)
      BY <3>1 DEF Counted
    <3>3. /\ Counter(k, q) <= Counter(k, q)'
          /\ Counter(k, q) \in Int /\ Counter(k, q)' \in Int
      BY <3>1
    <3>4. i <= Counter(k, q)'
      BY <3>2, <3>3
    <3> QED BY <3>1, <3>2, <3>4
  <2> QED BY <2>1, <2>2
<1> QED
  BY <1>8, <1>10, <1>11, <1>12, <1>13, <1>14
-----------------------------------------------------------------------------
(* NameOccupiedErr has one of its causes when it is thrown. *)
LEMMA ThrownExplained ==
  ASSUME Shape, NEW obj \in Objects \ DOMAIN all_names,
         NEW l \in 1 .. Len(items), NEW n \in Name, NEW i \in Nat,
         i > Counter(l, WithUnderscore(n)), Counter(l, WithUnderscore(n)) \in Int,
         ~ CanRegister(l, WithNumber(n, i), obj),
         asked' = WithEntry(obj, n, asked),
         occupied' = <<obj, l, WithNumber(n, i)>>,
         UNCHANGED <<items, all_names, home, order>>
  PROVE  OccupiedExplained'
<1> USE DEF Shape
<1> DEFINE u == WithNumber(n, i)
           ls == holders(l, Folded(u))
           at == Max(ls)
           holder == items[at][Folded(u)]
<1>1. l \in Nat /\ ls \in SUBSET (1 .. l) /\ ls # {} /\ Len(items) \in Nat
  BY DEF holders, LevelsType, CanRegister
<1>2. at \in ls
  <2> HIDE DEF ls
  <2> QED BY <1>1, Greatest
<1>3. at \in 1 .. l /\ at \in 1 .. Len(items) /\ Folded(u) \in DOMAIN items[at]
  BY <1>1, <1>2 DEF holders
<1>4. Folded(u) \notin Keywords
  BY NumberedNames
<1>5. holder \in DOMAIN all_names /\ home[holder] = at
  <2> HIDE DEF at, u
  <2> QED BY <1>3, <1>4 DEF Entries
<1>6. ASSUME at = l, asked[holder] # all_names[holder]
      PROVE  all_names[holder] # u
  <2>0. home[holder] # 0 /\ home[holder] = l
    BY <1>3, <1>5, <1>6
  <2> HIDE DEF holder
  <2>1. PICK j \in Nat : /\ all_names[holder] = WithNumber(asked[holder], j)
                         /\ j <= Counter(home[holder], WithUnderscore(asked[holder]))
    BY <1>5, <1>6, <2>0 DEF Counted
  <2>2. asked[holder] \in Name
    BY <1>5 DEF ObjectsType, NameMaps
  <2>3. ASSUME all_names[holder] = u
        PROVE  FALSE
    <3>1. WithNumber(n, i) = WithNumber(asked[holder], j)
      BY <2>1, <2>3
    <3>2. i = j /\ WithUnderscore(n) = WithUnderscore(asked[holder])
      BY <2>1, <2>2, <3>1, NumberedNames
    <3>3. i <= Counter(l, WithUnderscore(n))
      BY <2>0, <2>1, <3>2
    <3> QED BY <3>3
  <2> QED BY <2>3
<1>7. asked'[holder] = asked[holder]
  <2>1. holder # obj /\ holder \in DOMAIN asked
    BY <1>5 DEF ObjectsType
  <2> HIDE DEF holder
  <2> QED BY <2>1 DEF WithEntry
<1>8. at < l \/ asked'[holder] = all_names[holder] \/ all_names[holder] # u
  <2>1. CASE at < l   BY <2>1
  <2>2. CASE at = l
    <3> HIDE DEF holder, at, u
    <3> QED BY <1>6, <1>7, <2>2
  <2> HIDE DEF at
  <2> QED BY <1>1, <1>3, <2>1, <2>2
<1>9. occupied'[2] = l /\ occupied'[3] = u
  OBVIOUS
<1>10. holders(l, Folded(u))' = holders(l, Folded(u))
  BY DEF holders
<1> QED
  BY <1>8, <1>9, <1>10 DEF OccupiedExplained, holders

(* A counter is a number, or -1 before the first one. *)
LEMMA CounterType ==
  ASSUME LevelsType, NEW l \in 1 .. Len(items), NEW q
  PROVE  Counter(l, q) \in Nat \cup {-1}
<1>1. cntrs[l] \in CounterMaps
  BY DEF LevelsType
<1>2. \A x \in DOMAIN cntrs[l] : cntrs[l][x] \in Nat
  BY <1>1 DEF CounterMaps
<1> QED
  BY <1>2 DEF Counter

(* checkedName keeps the invariant, whether it throws or not. *)
LEMMA CheckedNameStep ==
  ASSUME IInv, NEW n \in Suggestions, NEW obj \in Objects, NEW isGlobal \in BOOLEAN,
         checkedName(n, obj, isGlobal)
  PROVE  IInv'
<1>1. /\ Shape /\ LevelsType
      /\ obj \in Objects \ DOMAIN all_names
      /\ occupied = NoError
      /\ asked' = WithEntry(obj, n, asked)
  BY DEF IInv, Shape, checkedName
<1>2. PICK l \in 1 .. Len(items) : get_suggested_name(l, n, obj) \/ get_numbered_name(l, n, obj)
  <2>1. 1 \in 1 .. Len(items) /\ Len(items) \in 1 .. Len(items)
    BY <1>1 DEF LevelsType
  <2> QED BY <2>1 DEF checkedName
<1>3. n \in Name
  BY NamesAssumption
<1>4. \A k \in 1 .. Len(items) : \A q : Counter(k, q) \in Int
  BY <1>1, CounterType
<1>5. CASE get_suggested_name(l, n, obj)
  <2>1. CanRegister(l, n, obj) /\ Give(l, n, obj) /\ cntrs' = cntrs
    BY <1>5 DEF get_suggested_name
  <2>2. \A k \in 1 .. Len(items) : \A q : Counter(k, q)' = Counter(k, q)
    BY <2>1 DEF Counter
  <2>3. \A k \in 1 .. Len(items) : \A q :
          /\ Counter(k, q) <= Counter(k, q)'
          /\ Counter(k, q) \in Int /\ Counter(k, q)' \in Int
    BY <1>4, <2>2
  <2>4. cntrs' \in Seq(CounterMaps) /\ Len(cntrs') = Len(cntrs)
    BY <1>1, <2>1 DEF LevelsType
  <2>5. Shape'
    BY <1>1, <1>3, <2>1, <2>3, <2>4, GiveKeeps
  <2>6. occupied' = NoError
    BY <1>1, <2>1 DEF Give
  <2> QED BY <2>5, <2>6 DEF IInv, Shape, OccupiedExplained
<1>6. CASE get_numbered_name(l, n, obj)
  <2> DEFINE p == WithUnderscore(n)
  <2>1. __incrPrefixCntrsForChilds(l, p, Counter(l, p))
    BY <1>6 DEF get_numbered_name
  <2>2. p \in Name /\ p = WithUnderscore(n)
    BY <1>3, NameFacts
  <2> HIDE DEF p
  <2>c. /\ cntrs' \in Seq(CounterMaps) /\ Len(cntrs') = Len(cntrs)
        /\ Counter(l, p) + 1 \in Nat
        /\ Counter(l, p)' = Counter(l, p) + 1
        /\ \A m \in 1 .. Len(items) : \A q : Counter(m, q)' >= Counter(m, q)
    BY <1>1, <2>1, <2>2, CounterGrows
  <2>i. PICK i \in Nat : i = Counter(l, p) + 1
    BY <2>c
  <2> DEFINE u == WithNumber(n, i)
  <2>3. /\ cntrs' \in Seq(CounterMaps) /\ Len(cntrs') = Len(cntrs)
        /\ Counter(l, p)' = i
        /\ \A m \in 1 .. Len(items) : \A q : Counter(m, q)' >= Counter(m, q)
    BY <2>c, <2>i
  <2>4. u \in Name
    BY <1>3, <2>3, NameFacts
  <2>5. CASE CanRegister(l, u, obj)
    <3>1. Give(l, u, obj)
      BY <1>6, <2>2, <2>5, <2>i DEF get_numbered_name
    <3>2. LevelsType'
      <4>1. /\ items' \in Seq(ItemMaps) /\ Len(items') = Len(items)
        BY <1>1, <1>2, <2>4, <3>1, RegisterFacts DEF Give
      <4> QED BY <1>1, <2>3, <4>1 DEF LevelsType
    <3>3. \A k \in 1 .. Len(items) : \A q : Counter(k, q)' \in Int
      <4>1. Len(items') = Len(items)
        BY <1>1, <2>3, <3>2 DEF LevelsType
      <4> SUFFICES ASSUME NEW k \in 1 .. Len(items), NEW q PROVE Counter(k, q)' \in Int
        OBVIOUS
      <4>2. cntrs'[k] \in CounterMaps
        BY <3>2, <4>1 DEF LevelsType
      <4>3. \A x \in DOMAIN cntrs'[k] : cntrs'[k][x] \in Nat
        BY <4>2 DEF CounterMaps
      <4> QED BY <4>3 DEF Counter
    <3>4. \A k \in 1 .. Len(items) : \A q :
            /\ Counter(k, q) <= Counter(k, q)'
            /\ Counter(k, q) \in Int /\ Counter(k, q)' \in Int
      BY <1>4, <2>3, <3>3
    <3>5. \E j \in Nat : u = WithNumber(n, j) /\ j <= Counter(l, p)'
      <4>1. i <= Counter(l, p)'
        BY <2>3
      <4> QED BY <2>3, <4>1
    <3> HIDE DEF u
    <3>6. Shape'
      BY <1>1, <1>2, <1>3, <2>3, <2>4, <2>2, <2>5, <3>1, <3>4, <3>5, GiveKeeps
    <3>7. occupied' = NoError
      BY <1>1, <3>1 DEF Give
    <3> QED BY <3>6, <3>7 DEF IInv, Shape, OccupiedExplained
  <2>6. CASE ~ CanRegister(l, u, obj)
    <3>1. occupied' = <<obj, l, u>> /\ UNCHANGED <<items, all_names, home, order>>
      BY <1>6, <2>2, <2>6, <2>i DEF get_numbered_name
    <3>2. i > Counter(l, WithUnderscore(n)) /\ Counter(l, WithUnderscore(n)) \in Int
      BY <1>4, <2>2, <2>i
    <3>3. OccupiedExplained'
      <4>1. ~ CanRegister(l, WithNumber(n, i), obj) /\ occupied' = <<obj, l, WithNumber(n, i)>>
        BY <2>6, <3>1
      <4> HIDE DEF u
      <4> QED BY <1>1, <1>2, <1>3, <2>3, <3>1, <3>2, <4>1, ThrownExplained
    <3>4. Shape'
      <4>1. LevelsType'
        BY <1>1, <2>3, <3>1 DEF LevelsType
      <4>2. asked' \in NameMaps /\ DOMAIN asked' = {obj} \cup DOMAIN asked
        <5>1. asked \in NameMaps
          BY <1>1 DEF Shape, ObjectsType
        <5>2. asked' \in NameMaps
          BY <1>1, <1>3, <5>1, PutType DEF NameMaps
        <5> QED BY <1>1, <5>2 DEF WithEntry
      <4>3. ObjectsType'
        BY <1>1, <3>1, <4>2 DEF Shape, ObjectsType
      <4>4. Entries' /\ Registered' /\ Shadowing'
        BY <1>1, <3>1 DEF Shape, Entries, Registered, Shadowing
      <4>5. Counted'
        <5> SUFFICES ASSUME NEW o \in DOMAIN all_names', home'[o] # 0, asked'[o] # all_names'[o],
                            NEW k, k = home'[o], NEW q, q = WithUnderscore(asked'[o])
                     PROVE  \E j \in Nat :
                              all_names'[o] = WithNumber(asked'[o], j) /\ j <= Counter(k, q)'
          BY DEF Counted, Counter, WithUnderscore
        <5>0. all_names' = all_names /\ home' = home
          BY <3>1
        <5>1. /\ o \in DOMAIN all_names /\ asked'[o] = asked[o] /\ k = home[o]
              /\ k \in 1 .. Len(items)
          BY <1>1, <5>0 DEF Shape, ObjectsType, NameMaps, WithEntry
        <5>2. PICK j \in Nat : all_names[o] = WithNumber(asked[o], j) /\ j <= Counter(k, q)
          BY <1>1, <5>0, <5>1 DEF Shape, Counted
        <5>3. Counter(k, q)' >= Counter(k, q) /\ Counter(k, q) \in Int
          BY <1>4, <2>3, <5>1
        <5>4. Counter(k, q)' \in Int
          <6>1. cntrs'[k] \in CounterMaps
            BY <1>1, <2>3, <5>1 DEF LevelsType
          <6>2. \A x \in DOMAIN cntrs'[k] : cntrs'[k][x] \in Nat
            BY <6>1 DEF CounterMaps
          <6> QED BY <6>2 DEF Counter
        <5>5. j <= Counter(k, q)'
          BY <5>2, <5>3, <5>4
        <5> QED BY <5>0, <5>1, <5>2, <5>5
      <4> QED BY <4>1, <4>3, <4>4, <4>5 DEF Shape
    <3> QED BY <3>3, <3>4 DEF IInv, Shape
  <2> QED BY <2>5, <2>6
<1> QED
  BY <1>2, <1>5, <1>6

(* A new level knows no names. *)
LEMMA LevelPushStep ==
  ASSUME IInv, level_push
  PROVE  IInv'
<1>0. LevelsType /\ ObjectsType /\ Entries /\ Registered /\ Shadowing /\ Counted
  BY DEF IInv
<1>1. /\ items' = Append(items, << >>) /\ cntrs' = Append(cntrs, << >>)
      /\ UNCHANGED <<all_names, occupied, home, asked, order>>
      /\ occupied = NoError
  BY DEF level_push
<1>2. /\ items \in Seq(ItemMaps) /\ cntrs \in Seq(CounterMaps)
      /\ Len(cntrs) = Len(items) /\ Len(items) > 0 /\ Len(items) \in Nat
  BY <1>0 DEF LevelsType
<1>3. << >> \in ItemMaps /\ << >> \in CounterMaps /\ DOMAIN << >> = {}
  <2>1. {} \in SUBSET Name /\ DOMAIN << >> = {} /\ << >> = [x \in {} |-> x]
    OBVIOUS
  <2>2. << >> \in [{} -> Objects \cup {KeyWord}] /\ << >> \in [{} -> Nat]
    BY <2>1
  <2> QED BY <2>1, <2>2 DEF ItemMaps, CounterMaps
<1>4. /\ items' \in Seq(ItemMaps) /\ Len(items') = Len(items) + 1
      /\ items'[Len(items) + 1] = << >>
      /\ \A k \in 1 .. Len(items) : items'[k] = items[k]
  BY <1>1, <1>2, <1>3
<1>5. /\ cntrs' \in Seq(CounterMaps) /\ Len(cntrs') = Len(cntrs) + 1
      /\ \A k \in 1 .. Len(items) : cntrs'[k] = cntrs[k]
  BY <1>1, <1>2, <1>3
<1>6. /\ LevelsType'
      /\ \A k \in 1 .. Len(items') : k \in 1 .. Len(items) \/ items'[k] = << >>
  BY <1>0, <1>2, <1>4, <1>5 DEF LevelsType
<1>7. ObjectsType'
  <2>1. home' \in [Objects -> 0 .. Len(items')]
    BY <1>0, <1>1, <1>2, <1>4 DEF ObjectsType
  <2> QED BY <1>0, <1>1, <2>1 DEF ObjectsType
<1>8. \A o \in DOMAIN all_names : home[o] # 0 => home[o] \in 1 .. Len(items)
  BY <1>0, <1>2 DEF ObjectsType, NameMaps
<1>9. Entries'
  <2> SUFFICES ASSUME NEW k \in 1 .. Len(items'), NEW x \in DOMAIN items'[k]
               PROVE  IF items'[k][x] = KeyWord THEN x \in Keywords
                      ELSE /\ items'[k][x] \in DOMAIN all_names
                           /\ home[items'[k][x]] = k
                           /\ Folded(all_names[items'[k][x]]) = x
    <3>1. all_names' = all_names /\ home' = home
      BY <1>1
    <3> QED BY <3>1 DEF Entries
  <2>1. k \in 1 .. Len(items) /\ items'[k] = items[k]
    BY <1>3, <1>4, <1>6
  <2> QED BY <1>0, <2>1 DEF Entries
<1>10. Registered' /\ Shadowing'
  BY <1>0, <1>1, <1>4, <1>8 DEF Registered, Shadowing
<1>11. Counted'
  <2> SUFFICES ASSUME NEW o \in DOMAIN all_names', home'[o] # 0, asked'[o] # all_names'[o],
                      NEW k, k = home'[o], NEW q, q = WithUnderscore(asked'[o])
               PROVE  \E i \in Nat :
                        all_names'[o] = WithNumber(asked'[o], i) /\ i <= Counter(k, q)'
    BY DEF Counted, Counter, WithUnderscore
  <2>0. all_names' = all_names /\ home' = home /\ asked' = asked
    BY <1>1
  <2>1. Counter(k, q)' = Counter(k, q)
    BY <1>5, <1>8, <2>0 DEF Counter
  <2>2. PICK i \in Nat : all_names[o] = WithNumber(asked[o], i) /\ i <= Counter(k, q)
    BY <1>0, <2>0 DEF Counted
  <2> QED BY <2>0, <2>1, <2>2
<1>12. OccupiedExplained'
  BY <1>1 DEF OccupiedExplained
<1> QED
  BY <1>6, <1>7, <1>9, <1>10, <1>11, <1>12 DEF IInv

(* The popped level takes its entries with it; no other level has one of   *)
(* an object of that level.                                                *)
LEMMA LevelPopStep ==
  ASSUME IInv, level_pop
  PROVE  IInv'
<1>0. LevelsType /\ ObjectsType /\ Entries /\ Registered /\ Shadowing /\ Counted
  BY DEF IInv
<1> DEFINE top == Len(items)
<1>1. /\ items' = SubSeq(items, 1, top - 1) /\ cntrs' = SubSeq(cntrs, 1, top - 1)
      /\ home' = [o \in Objects |-> IF home[o] = top THEN 0 ELSE home[o]]
      /\ UNCHANGED <<all_names, occupied, asked, order>>
      /\ occupied = NoError /\ top > 1
  BY DEF level_pop
<1>2. /\ items \in Seq(ItemMaps) /\ cntrs \in Seq(CounterMaps)
      /\ Len(cntrs) = top /\ top \in Nat /\ Len(items) = top
  BY <1>0 DEF LevelsType
<1> HIDE DEF top
<1>3. /\ items' \in Seq(ItemMaps) /\ Len(items') = top - 1
      /\ \A k \in 1 .. top - 1 : items'[k] = items[k]
  BY <1>1, <1>2
<1>4. /\ cntrs' \in Seq(CounterMaps) /\ Len(cntrs') = top - 1
      /\ \A k \in 1 .. top - 1 : cntrs'[k] = cntrs[k]
  BY <1>1, <1>2
<1>5. LevelsType'
  BY <1>0, <1>1, <1>2, <1>3, <1>4 DEF LevelsType
<1>6. /\ home \in [Objects -> 0 .. top]
      /\ \A o \in DOMAIN all_names : o \in Objects
      /\ \A o \in Objects : home'[o] # 0 => home'[o] = home[o] /\ home[o] \in 1 .. top - 1
      /\ \A o \in Objects : home[o] \in 1 .. top - 1 => home'[o] = home[o]
  BY <1>0, <1>1, <1>2 DEF ObjectsType, NameMaps
<1>7. ObjectsType'
  <2>1. home' \in [Objects -> 0 .. Len(items')]
    BY <1>1, <1>2, <1>3, <1>6
  <2>2. \A o \in Objects \ DOMAIN all_names' : home'[o] = 0
    BY <1>0, <1>1, <1>2 DEF ObjectsType
  <2> QED BY <1>0, <1>1, <2>1, <2>2 DEF ObjectsType
<1>8. Entries'
  <2> SUFFICES ASSUME NEW k \in 1 .. Len(items'), NEW x \in DOMAIN items'[k]
               PROVE  IF items'[k][x] = KeyWord THEN x \in Keywords
                      ELSE /\ items'[k][x] \in DOMAIN all_names
                           /\ home'[items'[k][x]] = k
                           /\ Folded(all_names[items'[k][x]]) = x
    <3>1. all_names' = all_names
      BY <1>1
    <3> QED BY <3>1 DEF Entries
  <2>1. k \in 1 .. top - 1 /\ k \in 1 .. Len(items) /\ items'[k] = items[k]
    BY <1>2, <1>3
  <2> QED BY <1>0, <1>6, <2>1 DEF Entries
<1>9. Registered'
  <2> SUFFICES ASSUME NEW o \in DOMAIN all_names, home'[o] # 0
               PROVE  /\ Folded(all_names[o]) \in DOMAIN items'[home'[o]]
                      /\ items'[home'[o]][Folded(all_names[o])] = o
    BY <1>0, <1>1 DEF Registered
  <2>1. home'[o] = home[o] /\ home[o] \in 1 .. top - 1 /\ home[o] # 0
    BY <1>6
  <2> QED BY <1>0, <1>3, <2>1 DEF Registered
<1>10. Shadowing'
  <2> SUFFICES ASSUME NEW a \in DOMAIN all_names, NEW b \in DOMAIN all_names,
                      a # b, home'[a] # 0, home'[b] >= home'[a],
                      Folded(all_names[a]) = Folded(all_names[b])
               PROVE  home'[b] > home'[a] /\ Before(order, b, a)
    BY <1>0, <1>1 DEF Shadowing
  <2>1. home'[a] = home[a] /\ home[a] \in 1 .. top - 1
    BY <1>6
  <2>2. home'[b] # 0
    BY <1>2, <2>1
  <2>3. home'[b] = home[b]
    BY <1>6, <2>2
  <2> QED BY <1>0, <2>1, <2>3 DEF Shadowing
<1>11. Counted'
  <2> SUFFICES ASSUME NEW o \in DOMAIN all_names', home'[o] # 0, asked'[o] # all_names'[o],
                      NEW k, k = home'[o], NEW q, q = WithUnderscore(asked'[o])
               PROVE  \E i \in Nat :
                        all_names'[o] = WithNumber(asked'[o], i) /\ i <= Counter(k, q)'
    BY DEF Counted, Counter, WithUnderscore
  <2>0. all_names' = all_names /\ asked' = asked
    BY <1>1
  <2>1. k = home[o] /\ k \in 1 .. top - 1 /\ k # 0
    BY <1>6, <2>0
  <2>2. Counter(k, q)' = Counter(k, q)
    BY <1>4, <2>1 DEF Counter
  <2>3. PICK i \in Nat : all_names[o] = WithNumber(asked[o], i) /\ i <= Counter(k, q)
    BY <1>0, <2>0, <2>1 DEF Counted
  <2> QED BY <2>0, <2>2, <2>3
<1>12. OccupiedExplained'
  BY <1>1 DEF OccupiedExplained
<1> QED
  BY <1>5, <1>7, <1>8, <1>9, <1>10, <1>11, <1>12 DEF IInv

(* One level, with the keywords. *)
LEMMA InitHolds ==
  ASSUME Init
  PROVE  IInv
<1> USE DEF Init
<1>1. LevelsType
  <2>1. [k \in Keywords |-> KeyWord] \in ItemMaps
    <3>1. Keywords \in SUBSET Name
      BY NamesAssumption
    <3>2. [k \in Keywords |-> KeyWord] \in [Keywords -> Objects \cup {KeyWord}]
      OBVIOUS
    <3> QED BY <3>1, <3>2 DEF ItemMaps
  <2>2. << >> \in CounterMaps
    <3>1. {} \in SUBSET Name /\ << >> \in [{} -> Nat]
      OBVIOUS
    <3> QED BY <3>1 DEF CounterMaps
  <2> DEFINE first == [k \in Keywords |-> KeyWord]
  <2>3. items = <<first>>
    OBVIOUS
  <2> HIDE DEF first
  <2> QED BY <2>1, <2>2, <2>3 DEF LevelsType, first
<1>2. DOMAIN all_names = {} /\ DOMAIN asked = {}
  OBVIOUS
<1>3. ObjectsType
  <2>1. << >> \in NameMaps
    <3>1. {} \in SUBSET Objects /\ << >> \in [{} -> Name]
      OBVIOUS
    <3> QED BY <3>1 DEF NameMaps
  <2>2. order \in Seq(Objects) /\ Elements(order) = {}
    BY DEF Elements
  <2>3. home \in [Objects -> 0 .. Len(items)]
    BY <1>1 DEF LevelsType
  <2> QED BY <1>2, <2>1, <2>2, <2>3 DEF ObjectsType
<1>4. Entries
  <2>1. Len(items) = 1 /\ items[1] = [k \in Keywords |-> KeyWord]
    OBVIOUS
  <2> QED BY <2>1 DEF Entries
<1>5. Registered /\ Shadowing /\ Counted
  BY <1>2 DEF Registered, Shadowing, Counted
<1>6. OccupiedExplained
  BY DEF OccupiedExplained
<1> QED
  BY <1>1, <1>3, <1>4, <1>5, <1>6 DEF IInv
-----------------------------------------------------------------------------
(* The invariant, of every run of the scope. *)
THEOREM Invariant == Spec => []IInv
<1>1. Init => IInv
  BY InitHolds
<1>2. IInv /\ [Next]_vars => IInv'
  <2> SUFFICES ASSUME IInv, [Next]_vars PROVE IInv'
    OBVIOUS
  <2>1. CASE level_push
    BY <2>1, LevelPushStep
  <2>2. CASE level_pop
    BY <2>2, LevelPopStep
  <2>3. ASSUME NEW n \in Suggestions, NEW obj \in Objects, NEW isGlobal \in BOOLEAN,
               checkedName(n, obj, isGlobal)
        PROVE  IInv'
    BY <2>3, CheckedNameStep
  <2>4. CASE UNCHANGED vars
    BY <2>4 DEF vars, IInv, LevelsType, ObjectsType, Entries, Registered, Shadowing, Counted,
                OccupiedExplained, Counter, holders
  <2> QED
    BY <2>1, <2>2, <2>3, <2>4 DEF Next
<1> QED
  BY <1>1, <1>2, PTL DEF Spec

(* The names of an inner and an outer level differ, but for the one case   *)
(* of a global name given later: NamesDistinct for every number of levels, *)
(* objects and spellings.                                                  *)
THEOREM Distinct == Spec => []NamesDistinct
<1>1. IInv => NamesDistinct
  <2> SUFFICES ASSUME IInv, NEW a \in DOMAIN all_names, home[a] # 0
               PROVE  /\ items[home[a]][Folded(all_names[a])] = a
                      /\ \A b \in DOMAIN all_names \ {a} :
                           home[b] >= home[a] /\ Folded(all_names[a]) = Folded(all_names[b]) =>
                             home[b] > home[a] /\ Before(order, b, a)
    BY DEF NamesDistinct
  <2>1. items[home[a]][Folded(all_names[a])] = a
    BY DEF IInv, Registered
  <2> QED BY <2>1 DEF IInv, Shadowing
<1> QED
  BY <1>1, Invariant, PTL

(* NameOccupiedErr leaves checkedName for one of the three causes only.    *)
THEOREM Explained == Spec => []OccupiedExplained
<1>1. IInv => OccupiedExplained
  BY DEF IInv
<1> QED
  BY <1>1, Invariant, PTL
-----------------------------------------------------------------------------
(* The serializer (Verilog2001): its invariant. *)

(* What frame f is about. *)
All(f) == IF f.stage = "body" THEN Body(f.of) ELSE SortedComponents(f.of)

(* How many of them are done with, or being done. *)
Taken(f) == Len(All(f)) - Len(f.todo)

Stages == {"dependencies", "head", "body"}

(* What is left to do is the end of it. *)
FrameOK(f) ==
  /\ f \in [of : DOMAIN design.netlists, stage : Stages, todo : {f.todo}]
  /\ f.todo \in Seq(Elements(f.todo)) /\ Len(f.todo) <= Len(All(f))
  /\ \A i \in 1 .. Len(f.todo) : f.todo[i] = All(f)[Taken(f) + i]
  /\ f.stage = "head" => f.todo = << >>

InBody == stack # << >> /\ Top.stage = "body"

(* A frame waits for the one on top of it, that of its last dependency.    *)
Waits(f, g) == f.stage = "dependencies" /\ Taken(f) > 0 /\ SortedComponents(f.of)[Taken(f)].of = g.of

StackOK ==
  /\ design \in Designs
  /\ stack \in Seq(Elements(stack))
  /\ \A i \in 1 .. Len(stack) : FrameOK(stack[i])
  /\ \A i \in 1 .. Len(stack) - 1 : Waits(stack[i], stack[i + 1])
  /\ Len(items) = IF InBody THEN 2 ELSE 1

(* Netlists are named outside of all modules, all else inside of one. *)
Levels ==
  \A o \in DOMAIN all_names :
    IF o \in DOMAIN design.netlists THEN home[o] = 1 /\ asked[o] = Netlist(o).name ELSE home[o] # 1

(* The module of n is there. *)
Settled(n) == n \in DOMAIN all_names /\ \E j \in Written("endmodule") : written[j].of = n

(* The dependencies that f is done with, when it is on top or not.         *)
Delivered(f, onTop) ==
  IF f.stage = "dependencies" THEN Taken(f) - (IF onTop THEN 0 ELSE 1) ELSE Len(SortedComponents(f.of))

Served(f, onTop) == \A k \in 1 .. Delivered(f, onTop) : Settled(SortedComponents(f.of)[k].of)

DependenciesFirst ==
  /\ \A i \in 1 .. Len(stack) - 1 : Served(stack[i], FALSE)
  /\ stack # << >> => Served(Top, TRUE) /\ (Top.stage # "dependencies" => Top.of \in DOMAIN all_names)

WrittenOK == written \in Seq(Elements(written))

Struct == IInv /\ StackOK /\ WrittenOK /\ Levels /\ DependenciesFirst
-----------------------------------------------------------------------------
(* The number 0 of a prefix that was counted in the global level is taken  *)
(* there; that of a prefix counted in the level of a body is free there.   *)
Zero(p) == Folded(WithNumber(p, 0))

Zeros ==
  occupied = NoError =>
    /\ \A p \in DOMAIN cntrs[1] : Zero(p) \in DOMAIN items[1]
    /\ Len(items) = 2 => \A p \in DOMAIN cntrs[2] : Zero(p) \notin DOMAIN items[1]

(* A netlist's own name is an entry, unless it ends with an underscore. *)
Asked ==
  \A o \in DOMAIN all_names :
    home[o] = 1 /\ ~ EndsOpen(asked[o]) => Folded(asked[o]) \in DOMAIN items[1]

(* c shares its name with a component that is another netlist. *)
Clash(n, c) ==
  \E d \in Elements(Netlist(n).comps) : Netlist(d.of).name = Netlist(c.of).name /\ d.of # c.of

ClashesUnnamed ==
  \A n \in DOMAIN design.netlists : \A c \in Elements(Netlist(n).comps) :
    Clash(n, c) => c.id \notin DOMAIN all_names

PartsNamed ==
  InBody => \A i \in 1 .. Taken(Top) : Body(Top.of)[i].of.id \in DOMAIN all_names

NoClash(n) == \A c \in Elements(Netlist(n).comps) : ~ Clash(n, c)

ClashStays == \A h \in Written("module") : NoClash(written[h].of) \/ (InBody /\ Top.of = written[h].of)

ClashInv == Zeros /\ Asked /\ ClashesUnnamed /\ PartsNamed /\ ClashStays
-----------------------------------------------------------------------------
(* w is line number q, from 0, of a definition of n. *)
Fits(w, n, q) ==
  \/ q = 0 /\ w.k = "module" /\ w.of = n
  \/ /\ q \in 1 .. Len(Body(n))
     /\ w.k = Body(n)[q].k /\ w.id = Body(n)[q].of.id
     /\ w.k = "instance" => w.of = Body(n)[q].of.of
  \/ q = Len(Body(n)) + 1 /\ w.k = "endmodule" /\ w.of = n

(* Line i belongs to the definition that starts at line h. *)
InBlock(i, h) ==
  /\ h \in Written("module") /\ h <= i
  /\ \A l \in h + 1 .. i : written[l].k # "module"
  /\ Fits(written[i], written[h].of, i - h)

Blocks == \A i \in 1 .. Len(written) : \E h \in 1 .. Len(written) : InBlock(i, h)

(* The definition that is being written. *)
Current(h) ==
  h \in 1 .. Len(written) /\ InBlock(Len(written), h) /\ written[h].of = Top.of /\ Len(written) - h = Taken(Top)

BodyOpen == InBody => \E h \in 1 .. Len(written) : Current(h)

(* A line has the names that its objects were given, and the ports that an *)
(* instance names are those of its netlist.                                *)
LineNamed(w) ==
  IF w.k = "instance"
  THEN /\ w.of \in DOMAIN all_names /\ w.name = all_names[w.of] /\ w.of \in DOMAIN design.netlists
       /\ \A p \in DOMAIN w.conn :
            /\ p \in DOMAIN all_names /\ w.conn[p].port = all_names[p]
            /\ \E j \in 1 .. Len(Netlist(w.of).ports) : Netlist(w.of).ports[j].id = p
  ELSE /\ w.id \in DOMAIN all_names /\ w.name = all_names[w.id]
       /\ w.k \in {"module", "endmodule"} => w.of = w.id /\ w.of \in DOMAIN design.netlists

EndedBefore(i, n) == \E j \in Written("endmodule") : j < i /\ written[j].of = n

LineNames ==
  \A i \in 1 .. Len(written) :
    LineNamed(written[i]) /\ (written[i].k = "instance" => EndedBefore(i, written[i].of))

Lines == Blocks /\ LineNames

TextInv == Lines /\ BodyOpen

(* The parts of a body are named one after the other, in the level of the  *)
(* body, when it is written first.                                         *)
PartId(n, i) == Body(n)[i].of.id
Whole(n) == \A i \in 1 .. Len(Body(n)) : PartId(n, i) \in DOMAIN all_names
None(n) == \A i \in 1 .. Len(Body(n)) : PartId(n, i) \notin DOMAIN all_names
Partly(n) ==
  /\ InBody /\ Top.of = n
  /\ \A i \in 1 .. Len(Body(n)) :
       IF i <= Taken(Top) THEN PartId(n, i) \in DOMAIN all_names /\ home[PartId(n, i)] = 2
       ELSE PartId(n, i) \notin DOMAIN all_names
PartsInOrder ==
  ~ failed => \A n \in DOMAIN design.netlists : Whole(n) \/ None(n) \/ Partly(n)

PartsDistinct ==
  \A n \in DOMAIN design.netlists : \A i, j \in 1 .. Len(Body(n)) :
    i # j /\ PartId(n, i) \in DOMAIN all_names /\ PartId(n, j) \in DOMAIN all_names =>
      all_names[PartId(n, i)] # all_names[PartId(n, j)]

PartsInv == PartsInOrder /\ PartsDistinct
-----------------------------------------------------------------------------
(* The components of netlist n that are of netlist m. *)
Makes(n, m) == {k \in DOMAIN Netlist(n).comps : Netlist(n).comps[k].of = m}

(* Those among the components that frame i is done with: it is on top, or  *)
(* the module of the one that it waits for is being written.               *)
OnTop(i) == i = Len(stack) \/ (i = Len(stack) - 1 /\ InBody)
Arrived(i) == IF OnTop(i) THEN Delivered(stack[i], TRUE) ELSE Delivered(stack[i], FALSE)
Ready(i, n) ==
  IF stack[i].stage = "body" THEN {}
  ELSE {k \in 1 .. Arrived(i) : SortedComponents(stack[i].of)[k].of = n}
Pending(n) == UNION {{i} \X Ready(i, n) : i \in 1 .. Len(stack)}

(* The one definition that no component needs is there, or begun. *)
RootStarted == stack = << >> \/ (Len(stack) = 1 /\ InBody)

Balance ==
  /\ stack # << >> => stack[1].of = design.top
  /\ \A n \in DOMAIN design.netlists :
       /\ IsFiniteSet(Definitions(n)) /\ IsFiniteSet(Needed(n)) /\ IsFiniteSet(Pending(n))
       /\ Cardinality(Definitions(n)) =
            Cardinality(Needed(n)) + Cardinality(Pending(n))
              + IF n = design.top /\ RootStarted THEN 1 ELSE 0
-----------------------------------------------------------------------------
(* The text of the modules of n is not lost, when the first is of first. *)
Lands(n, first) ==
  \/ ~ design.io.files
  \/ design.io.flat /\ ~ design.io.to_top_dir
  \/ design.io.to_top_dir /\ n = first

Inside == stack # << >> /\ Top.stage # "dependencies"
First == IF written = << >> THEN Top.of ELSE written[1].of
TopDirs(first) == IF design.io.to_top_dir THEN {<<all_names[first]>>} ELSE {}

DirsOK ==
  design.io.files =>
    /\ IF Inside THEN \E s : scope = <<s>> ELSE scope = << >>
    /\ IF top_clear
       THEN /\ written = << >> => stack # << >> /\ Top.stage = "head"
            /\ First \in DOMAIN all_names /\ First \in DOMAIN design.netlists
            /\ dirs = {<< >>} \cup TopDirs(First)
       ELSE dirs = {<< >>} /\ written = << >> /\ ~ Inside

FileOpen ==
  /\ ~ design.io.files => file = Stream
  /\ stack # << >> /\ Top.stage = "head" => (file # Closed <=> (written = << >> \/ Lands(Top.of, First)))
  /\ InBody => written # << >> /\ written[Len(written)].file = file

(* Line i belongs to the definition that starts at line h. *)
Under(i, h) ==
  /\ h \in 1 .. Len(written) /\ h <= i /\ written[h].k = "module"
  /\ \A l \in h + 1 .. i : written[l].k # "module"

LinesLand ==
  \A i, h \in 1 .. Len(written) :
    Under(i, h) => (written[i].file # Closed <=> (h = 1 \/ Lands(written[h].of, First)))

FilesInv == DirsOK /\ FileOpen /\ LinesLand

VerilogInv == Struct /\ ClashInv /\ TextInv /\ PartsInv /\ Balance /\ FilesInv
-----------------------------------------------------------------------------
(* Lemmas about sort_named_objects and Body: sorting only rearranges, and  *)
(* the parts of a body are the ports, the nets and the components of its   *)
(* netlist.                                                                *)

(* r holds what s holds, in some order. *)
Rearranged(s, r) ==
  \E f \in [DOMAIN s -> DOMAIN s] :
    /\ \A i, j \in DOMAIN s : f[i] = f[j] => i = j
    /\ \A i \in DOMAIN s : \E k \in DOMAIN s : f[k] = i
    /\ r = [k \in DOMAIN s |-> s[f[k]]]

(* Sorting rearranges.  The place of an item is the number of items that   *)
(* are before it, and one: no two items have the same, so each is taken.   *)
LEMMA SortRearranges ==
  ASSUME NEW X, NEW s \in Seq(X), NEW names, \A i \in DOMAIN s : names[i] \in Suggestions
  PROVE  Rearranged(s, sort_named_objects(s, names))
<1> DEFINE D == DOMAIN s
           before(i, j) == \/ StringOrder[names[i]] < StringOrder[names[j]]
                           \/ names[i] = names[j] /\ i < j
           Behind(i) == {j \in D : before(j, i)}
           place == [i \in D |-> Cardinality({j \in D : before(j, i)}) + 1]
<1>1. D = 1 .. Len(s) /\ Len(s) \in Nat /\ IsFiniteSet(D) /\ Cardinality(D) = Len(s)
  <2>1. D = 1 .. Len(s) /\ Len(s) \in Nat
    OBVIOUS
  <2>2. IsFiniteSet(1 .. Len(s)) /\ Cardinality(1 .. Len(s)) = Len(s)
    <3> DEFINE n == Len(s)
    <3>1. n \in Int /\ 1 \in Int /\ n >= 0
      BY <2>1
    <3> HIDE DEF n
    <3>2. IsFiniteSet(1 .. n) /\ Cardinality(1 .. n) = IF 1 > n THEN 0 ELSE n - 1 + 1
      BY <3>1, FS_Interval
    <3>3. IsFiniteSet(1 .. n) /\ Cardinality(1 .. n) = n
      BY <3>1, <3>2
    <3> QED BY <3>3 DEF n
  <2> QED BY <2>1, <2>2
<1>2. \A i \in D : StringOrder[names[i]] \in Nat /\ i \in Nat
  BY <1>1, StringOrderAssumption
<1>3. \A i, j \in D : StringOrder[names[i]] = StringOrder[names[j]] => names[i] = names[j]
  BY StringOrderAssumption
<1>4. \A i \in D : ~ before(i, i)
  BY <1>2
<1>5. \A i, j \in D : i # j => before(i, j) \/ before(j, i)
  BY <1>2, <1>3
<1>6. \A i, j, k \in D : before(i, j) /\ before(j, k) => before(i, k)
  BY <1>2
<1>7. \A i \in D : IsFiniteSet(Behind(i)) /\ Cardinality(Behind(i)) \in Nat /\ Cardinality(Behind(i)) < Len(s)
  <2> SUFFICES ASSUME NEW i \in D
               PROVE  IsFiniteSet(Behind(i)) /\ Cardinality(Behind(i)) \in Nat /\ Cardinality(Behind(i)) < Len(s)
    OBVIOUS
  <2>1. Behind(i) \in SUBSET D /\ i \notin Behind(i)
    BY <1>4
  <2> HIDE DEF Behind, D
  <2>2. IsFiniteSet(Behind(i)) /\ Cardinality(Behind(i)) <= Cardinality(D)
        /\ (Cardinality(D) = Cardinality(Behind(i)) => D = Behind(i))
    BY <1>1, <2>1, FS_Subset
  <2>3. Cardinality(Behind(i)) \in Nat
    BY <2>2, FS_CardinalityType
  <2>4. D # Behind(i)
    BY <2>1
  <2> QED BY <1>1, <2>2, <2>3, <2>4
<1>8. \A i, j \in D : before(i, j) => Cardinality(Behind(i)) < Cardinality(Behind(j))
  <2> SUFFICES ASSUME NEW i \in D, NEW j \in D, before(i, j)
               PROVE  Cardinality(Behind(i)) < Cardinality(Behind(j))
    OBVIOUS
  <2>1. Behind(i) \in SUBSET Behind(j)
    BY <1>6
  <2>2. i \in Behind(j) /\ i \notin Behind(i)
    BY <1>4
  <2> HIDE DEF Behind, D, before
  <2>3. IsFiniteSet(Behind(j)) /\ Cardinality(Behind(j)) \in Nat /\ Cardinality(Behind(i)) \in Nat
    BY <1>7
  <2>4. /\ Cardinality(Behind(i)) <= Cardinality(Behind(j))
        /\ Cardinality(Behind(j)) = Cardinality(Behind(i)) => Behind(j) = Behind(i)
    BY <2>1, <2>3, FS_Subset
  <2>5. Behind(i) # Behind(j)
    BY <2>2
  <2> QED BY <2>3, <2>4, <2>5
<1>9. \A i \in D : place[i] = Cardinality(Behind(i)) + 1
  OBVIOUS
<1>10. place \in Injection(D, D)
  <2>1. \A i \in D : place[i] \in D
    <3> HIDE DEF Behind, place, D
    <3> QED BY <1>1, <1>7, <1>9
  <2>2. \A i, j \in D : i # j => place[i] # place[j]
    <3> HIDE DEF Behind, place, D, before
    <3> QED BY <1>5, <1>7, <1>8, <1>9
  <2>3. place \in [D -> D]
    BY <2>1
  <2> HIDE DEF D, place
  <2> QED BY <2>2, <2>3 DEF Injection, IsInjective
<1>11. \A k \in D : \E i \in D : place[i] = k
  <2> HIDE DEF D, place
  <2>1. place \in Surjection(D, D)
    BY <1>1, <1>10, FS_Injection
  <2> QED BY <2>1 DEF Surjection
<1>12. \A i, j \in D : place[i] = place[j] => i = j
  <2> HIDE DEF D, place
  <2> QED BY <1>10 DEF Injection, IsInjective
<1> DEFINE f == [k \in D |-> CHOOSE i \in D : place[i] = k]
<1>13. sort_named_objects(s, names) = [k \in D |-> s[f[k]]]
  BY DEF sort_named_objects
<1>14. \A k \in D : f[k] \in D /\ place[f[k]] = k
  <2> HIDE DEF place, D
  <2> QED BY <1>11
<1>15. f \in [D -> D]
  <2> HIDE DEF place, D
  <2> QED BY <1>14
<1>p. \A i \in D : place[i] \in D
  <2> HIDE DEF place, D
  <2> QED BY <1>10 DEF Injection
<1> HIDE DEF place, f
<1>16. \A i \in D : f[place[i]] = i
  BY <1>p, <1>12, <1>14
<1>17. \A i, j \in D : f[i] = f[j] => i = j
  BY <1>14
<1>18. \A i \in D : \E k \in D : f[k] = i
  BY <1>p, <1>16
<1> QED
  BY <1>13, <1>15, <1>17, <1>18 DEF Rearranged

Rearranges(f, s, r) ==
  /\ \A i \in 1 .. Len(s) : f[i] \in 1 .. Len(s) /\ r[i] = s[f[i]]
  /\ \A i, j \in 1 .. Len(s) : f[i] = f[j] => i = j
  /\ \A i \in 1 .. Len(s) : \E k \in 1 .. Len(s) : f[k] = i

(* A rearranged sequence is as long, and what it holds comes from places   *)
(* of its own.                                                             *)
LEMMA RearrangedFacts ==
  ASSUME NEW X, NEW s \in Seq(X), NEW r, Rearranged(s, r)
  PROVE  /\ r \in Seq(X) /\ Len(r) = Len(s)
         /\ \E f : Rearranges(f, s, r)
<1>1. PICK f \in [DOMAIN s -> DOMAIN s] :
        /\ \A i, j \in DOMAIN s : f[i] = f[j] => i = j
        /\ \A i \in DOMAIN s : \E k \in DOMAIN s : f[k] = i
        /\ r = [k \in DOMAIN s |-> s[f[k]]]
  BY DEF Rearranged
<1>2. DOMAIN s = 1 .. Len(s) /\ Len(s) \in Nat /\ \A i \in DOMAIN s : s[i] \in X
  OBVIOUS
<1>3. r \in [1 .. Len(s) -> X]
  BY <1>1, <1>2
<1>4. r \in Seq(X) /\ Len(r) = Len(s)
  BY <1>2, <1>3
<1>5. Rearranges(f, s, r)
  BY <1>1, <1>2 DEF Rearranges
<1> QED
  BY <1>4, <1>5

(* What DesignsAssumption says of the design at hand. *)
Lists == {"ports", "nets", "comps"}

(* DesignsAssumption, of the design that is written. *)
LEMMA DesignFacts ==
  ASSUME design \in Designs
  PROVE  /\ DOMAIN design.netlists \subseteq Objects /\ design.top \in DOMAIN design.netlists
         /\ \A n \in DOMAIN design.netlists :
              /\ Netlist(n).name \in Suggestions
              /\ \A p \in Lists : Netlist(n)[p] \in Seq(Elements(Netlist(n)[p]))
              /\ \A p \in Lists : \A i \in DOMAIN Netlist(n)[p] :
                   /\ Netlist(n)[p][i].id \in Objects \ DOMAIN design.netlists
                   /\ p # "comps" => Netlist(n)[p][i].name \in Suggestions
              /\ \A i \in DOMAIN Netlist(n).comps :
                   /\ Netlist(n).comps[i].of \in DOMAIN design.netlists
                   /\ \A p \in DOMAIN Netlist(n).comps[i].conn :
                        \E j \in DOMAIN Netlist(Netlist(n).comps[i].of).ports :
                          Netlist(Netlist(n).comps[i].of).ports[j].id = p
         /\ \A m, n \in DOMAIN design.netlists : \A p, q \in Lists :
              \A i \in DOMAIN Netlist(m)[p], j \in DOMAIN Netlist(n)[q] :
                Netlist(m)[p][i].id = Netlist(n)[q][j].id => m = n /\ p = q /\ i = j
<1> DEFINE N == design.netlists
<1>1. /\ DOMAIN N \subseteq Objects /\ design.top \in DOMAIN N
      /\ \A n \in DOMAIN N :
         /\ N[n].name \in Suggestions
         /\ \A p \in {"ports", "nets", "comps"} :
              /\ N[n][p] \in Seq(Elements(N[n][p]))
              /\ \A i \in DOMAIN N[n][p] :
                   /\ N[n][p][i].id \in Objects \ DOMAIN N
                   /\ p # "comps" => N[n][p][i].name \in Suggestions
                   /\ \A m \in DOMAIN N, q \in {"ports", "nets", "comps"} :
                        \A j \in DOMAIN N[m][q] :
                          N[n][p][i].id = N[m][q][j].id => n = m /\ p = q /\ i = j
         /\ \A i \in DOMAIN N[n].comps : LET c == N[n].comps[i] IN
              /\ c.of \in DOMAIN N
              /\ \A p \in DOMAIN c.conn : \E j \in DOMAIN N[c.of].ports : N[c.of].ports[j].id = p
  BY DesignsAssumption, Zenon
<1> HIDE DEF N
<1>2. \A n : Netlist(n) = N[n]
  BY DEF Netlist, N
<1>3. DOMAIN N \subseteq Objects /\ design.top \in DOMAIN N
  BY <1>1
<1>4. \A n \in DOMAIN N : Netlist(n).name \in Suggestions
  BY <1>1, <1>2
<1>5. \A n \in DOMAIN N : \A p \in Lists : Netlist(n)[p] \in Seq(Elements(Netlist(n)[p]))
  BY <1>1, <1>2, Zenon DEF Lists
<1>6. \A n \in DOMAIN N : \A p \in Lists : \A i \in DOMAIN Netlist(n)[p] :
                   /\ Netlist(n)[p][i].id \in Objects \ DOMAIN N
                   /\ p # "comps" => Netlist(n)[p][i].name \in Suggestions
  BY <1>1, <1>2, Zenon DEF Lists
<1>7. \A n \in DOMAIN N : \A i \in DOMAIN Netlist(n).comps :
                   /\ Netlist(n).comps[i].of \in DOMAIN N
                   /\ \A p \in DOMAIN Netlist(n).comps[i].conn :
                        \E j \in DOMAIN Netlist(Netlist(n).comps[i].of).ports :
                          Netlist(Netlist(n).comps[i].of).ports[j].id = p
  <2> SUFFICES ASSUME NEW n \in DOMAIN N, NEW i \in DOMAIN Netlist(n).comps
               PROVE  /\ Netlist(n).comps[i].of \in DOMAIN N
                      /\ \A p \in DOMAIN Netlist(n).comps[i].conn :
                           \E j \in DOMAIN Netlist(Netlist(n).comps[i].of).ports :
                             Netlist(Netlist(n).comps[i].of).ports[j].id = p
    OBVIOUS
  <2> DEFINE c == Netlist(n).comps[i]
  <2>1. c = N[n].comps[i] /\ i \in DOMAIN N[n].comps
    BY <1>2
  <2> HIDE DEF c
  <2>a. \A k \in DOMAIN N[n].comps : LET e == N[n].comps[k] IN
              /\ e.of \in DOMAIN N
              /\ \A p \in DOMAIN e.conn : \E j \in DOMAIN N[e.of].ports : N[e.of].ports[j].id = p
    BY <1>1, Zenon
  <2>2. c.of \in DOMAIN N /\ \A p \in DOMAIN c.conn : \E j \in DOMAIN N[c.of].ports : N[c.of].ports[j].id = p
    BY <2>1, <2>a
  <2>3. c.of \in DOMAIN N
        /\ \A p \in DOMAIN c.conn : \E j \in DOMAIN Netlist(c.of).ports : Netlist(c.of).ports[j].id = p
    BY <1>2, <2>2
  <2> QED BY <2>3 DEF c
<1>8. \A m, n \in DOMAIN N : \A p, q \in Lists :
              \A i \in DOMAIN Netlist(m)[p], j \in DOMAIN Netlist(n)[q] :
                Netlist(m)[p][i].id = Netlist(n)[q][j].id => m = n /\ p = q /\ i = j
  <2> SUFFICES ASSUME NEW m \in DOMAIN N, NEW n \in DOMAIN N, NEW p \in Lists, NEW q \in Lists,
                      NEW i \in DOMAIN N[m][p], NEW j \in DOMAIN N[n][q], N[m][p][i].id = N[n][q][j].id
               PROVE  m = n /\ p = q /\ i = j
    BY <1>2
  <2>1. p \in {"ports", "nets", "comps"} /\ q \in {"ports", "nets", "comps"}
    BY DEF Lists
  <2>2. \A k \in DOMAIN N[m][p] : \A o \in DOMAIN N, r \in {"ports", "nets", "comps"} :
          \A l \in DOMAIN N[o][r] : N[m][p][k].id = N[o][r][l].id => m = o /\ p = r /\ k = l
    <3>1. \A P \in {"ports", "nets", "comps"} :
              /\ N[m][P] \in Seq(Elements(N[m][P]))
              /\ \A k \in DOMAIN N[m][P] :
                   /\ N[m][P][k].id \in Objects \ DOMAIN N
                   /\ P # "comps" => N[m][P][k].name \in Suggestions
                   /\ \A o \in DOMAIN N, r \in {"ports", "nets", "comps"} :
                        \A l \in DOMAIN N[o][r] :
                          N[m][P][k].id = N[o][r][l].id => m = o /\ P = r /\ k = l
      BY <1>1, Zenon
    <3>2. \A k \in DOMAIN N[m][p] :
                   /\ N[m][p][k].id \in Objects \ DOMAIN N
                   /\ p # "comps" => N[m][p][k].name \in Suggestions
                   /\ \A o \in DOMAIN N, r \in {"ports", "nets", "comps"} :
                        \A l \in DOMAIN N[o][r] :
                          N[m][p][k].id = N[o][r][l].id => m = o /\ p = r /\ k = l
      BY <2>1, <3>1, Zenon
    <3> QED BY <3>2, Zenon
  <2> QED BY <2>1, <2>2
<1> QED
  BY <1>3, <1>4, <1>5, <1>6, <1>7, <1>8 DEF N

(* Part keeps the length and the order. *)
LEMMA PartFacts ==
  ASSUME NEW X, NEW s \in Seq(X), NEW k
  PROVE  LET E == [k : {k}, of : X] IN
         /\ Part(k, s) \in Seq(E) /\ Len(Part(k, s)) = Len(s)
         /\ \A i \in 1 .. Len(s) : Part(k, s)[i] = [k |-> k, of |-> s[i]]
<1> DEFINE E == [k : {k}, of : X]
<1>1. DOMAIN s = 1 .. Len(s) /\ Len(s) \in Nat /\ \A i \in 1 .. Len(s) : s[i] \in X
  OBVIOUS
<1>2. Part(k, s) = [i \in 1 .. Len(s) |-> [k |-> k, of |-> s[i]]]
  BY <1>1 DEF Part
<1>3. \A i \in 1 .. Len(s) : [k |-> k, of |-> s[i]] \in E
  BY <1>1
<1> HIDE DEF E
<1>4. Part(k, s) \in [1 .. Len(s) -> E]
  BY <1>2, <1>3
<1>5. Part(k, s) \in Seq(E) /\ Len(Part(k, s)) = Len(s)
  BY <1>1, <1>4
<1> QED
  BY <1>2, <1>5 DEF E

(* Sequences behind one another: what is in s is in r, after d others.     *)
Joined(a, b) == a \o b

Placed(s, d, r) == \A i \in 1 .. Len(s) : r[d + i] = s[i]

(* Where the items of two joined lists are. *)
LEMMA TwoParts ==
  ASSUME NEW X, NEW a \in Seq(X), NEW b \in Seq(X)
  PROVE  /\ Joined(a, b) \in Seq(X) /\ Len(Joined(a, b)) = Len(a) + Len(b)
         /\ Placed(a, 0, Joined(a, b)) /\ Placed(b, Len(a), Joined(a, b))
<1>1. a \o b \in Seq(X) /\ Len(a \o b) = Len(a) + Len(b)
  OBVIOUS
<1>2. \A i \in 1 .. Len(a) : (a \o b)[0 + i] = a[i]
  OBVIOUS
<1>3. \A i \in 1 .. Len(b) : (a \o b)[Len(a) + i] = b[i]
  OBVIOUS
<1> QED
  BY <1>1, <1>2, <1>3, Zenon DEF Joined, Placed

(* A list in a list that begins another one. *)
LEMMA PlacedAgain ==
  ASSUME NEW X, NEW a \in Seq(X), NEW s \in Seq(X), NEW d \in Nat, NEW r \in Seq(X),
         d + Len(a) <= Len(s), Placed(a, d, s), Placed(s, 0, r)
  PROVE  Placed(a, d, r)
<1> SUFFICES ASSUME NEW i \in 1 .. Len(a) PROVE r[d + i] = a[i]
  BY DEF Placed
<1>1. d + i \in 1 .. Len(s) /\ 0 + (d + i) = d + i
  OBVIOUS
<1>2. r[0 + (d + i)] = s[d + i] /\ s[d + i] = a[i]
  BY <1>1 DEF Placed
<1> QED
  BY <1>1, <1>2

(* Where the items of three joined lists are. *)
LEMMA ThreeParts ==
  ASSUME NEW X, NEW a \in Seq(X), NEW b \in Seq(X), NEW c \in Seq(X)
  PROVE  /\ Joined(Joined(a, b), c) \in Seq(X)
         /\ Len(Joined(Joined(a, b), c)) = Len(a) + Len(b) + Len(c)
         /\ Placed(a, 0, Joined(Joined(a, b), c))
         /\ Placed(b, Len(a), Joined(Joined(a, b), c))
         /\ Placed(c, Len(a) + Len(b), Joined(Joined(a, b), c))
<1>0. /\ Joined(a, b) \in Seq(X) /\ Len(Joined(a, b)) = Len(a) + Len(b)
      /\ Placed(a, 0, Joined(a, b)) /\ Placed(b, Len(a), Joined(a, b))
  BY TwoParts
<1>1. PICK s \in Seq(X) : s = Joined(a, b)
  BY <1>0
<1>2. Len(s) = Len(a) + Len(b) /\ Placed(a, 0, s) /\ Placed(b, Len(a), s)
  BY <1>0, <1>1, Zenon
<1>3. /\ Joined(s, c) \in Seq(X) /\ Len(Joined(s, c)) = Len(s) + Len(c)
      /\ Placed(s, 0, Joined(s, c)) /\ Placed(c, Len(s), Joined(s, c))
  BY TwoParts
<1>4. PICK r \in Seq(X) : r = Joined(s, c)
  BY <1>3
<1>5. Len(r) = Len(s) + Len(c) /\ Placed(s, 0, r) /\ Placed(c, Len(s), r)
  BY <1>3, <1>4, Zenon
<1>6. Len(a) \in Nat /\ Len(b) \in Nat /\ Len(c) \in Nat
  OBVIOUS
<1>7. Len(r) = Len(a) + Len(b) + Len(c)
  BY <1>2, <1>5, <1>6
<1>8. Placed(a, 0, r)
  BY <1>2, <1>5, <1>6, PlacedAgain
<1>9. Placed(b, Len(a), r)
  BY <1>2, <1>5, <1>6, PlacedAgain
<1>10. Placed(c, Len(a) + Len(b), r)
  BY <1>2, <1>5, Zenon
<1> QED
  BY <1>1, <1>4, <1>7, <1>8, <1>9, <1>10, Zenon

(* The parts of a body: where each of them is in the netlist. *)
LEMMA Sorted ==
  ASSUME design \in Designs, NEW n \in DOMAIN design.netlists
  PROVE  /\ Netlist(n).comps \in Seq(Elements(Netlist(n).comps))
         /\ Netlist(n).ports \in Seq(Elements(Netlist(n).ports))
         /\ Netlist(n).nets \in Seq(Elements(Netlist(n).nets))
         /\ Rearranged(Netlist(n).comps, SortedComponents(n))
         /\ Rearranged(Netlist(n).ports, SortedPorts(n))
<1>1. /\ Netlist(n)["comps"] \in Seq(Elements(Netlist(n)["comps"]))
      /\ Netlist(n)["ports"] \in Seq(Elements(Netlist(n)["ports"]))
      /\ Netlist(n)["nets"] \in Seq(Elements(Netlist(n)["nets"]))
  BY DesignFacts DEF Lists
<1>2. \A i \in DOMAIN Netlist(n)["ports"] : Netlist(n)["ports"][i].name \in Suggestions
  BY DesignFacts DEF Lists
<1>3. \A i \in DOMAIN Netlist(n).comps : Netlist(Netlist(n).comps[i].of).name \in Suggestions
  BY DesignFacts
<1>4. Rearranged(Netlist(n).comps, SortedComponents(n))
  <2> DEFINE s == Netlist(n).comps
             names == [i \in DOMAIN s |-> Netlist(s[i].of).name]
  <2>1. s \in Seq(Elements(s)) /\ \A i \in DOMAIN s : names[i] \in Suggestions
    BY <1>1, <1>3
  <2>2. SortedComponents(n) = sort_named_objects(s, names)
    BY DEF SortedComponents
  <2> HIDE DEF s, names
  <2>3. Rearranged(s, sort_named_objects(s, names))
    BY <2>1, SortRearranges
  <2> QED BY <2>2, <2>3 DEF s
<1>5. Rearranged(Netlist(n).ports, SortedPorts(n))
  <2> DEFINE s == Netlist(n).ports
             names == [i \in DOMAIN s |-> s[i].name]
  <2>1. s \in Seq(Elements(s)) /\ \A i \in DOMAIN s : names[i] \in Suggestions
    BY <1>1, <1>2
  <2>2. SortedPorts(n) = sort_named_objects(s, names)
    BY DEF SortedPorts
  <2> HIDE DEF s, names
  <2>3. Rearranged(s, sort_named_objects(s, names))
    BY <2>1, SortRearranges
  <2> QED BY <2>2, <2>3 DEF s
<1> QED
  BY <1>1, <1>4, <1>5

(* Ports, nets and components behind one another, two of them rearranged.  *)
Joints(ports, nets, comps) == Joined(Joined(Part("port", ports), Part("net", nets)), Part("instance", comps))

Shaped(B, ports, nets, comps) ==
  /\ B \in Seq(Elements(B)) /\ Len(B) = Len(ports) + Len(nets) + Len(comps)
  /\ \A i \in 1 .. Len(ports) : B[i].k = "port" /\ B[i].of = ports[i]
  /\ \A i \in 1 .. Len(nets) : B[Len(ports) + i].k = "net" /\ B[Len(ports) + i].of = nets[i]
  /\ \A i \in 1 .. Len(comps) :
       B[Len(ports) + Len(nets) + i].k = "instance" /\ B[Len(ports) + Len(nets) + i].of = comps[i]

(* The ports come first, then the nets, then the components. *)
LEMMA BodyShape ==
  ASSUME NEW X, NEW ports \in Seq(X), NEW nets \in Seq(X), NEW comps \in Seq(X)
  PROVE  Shaped(Joints(ports, nets, comps), ports, nets, comps)
<1> DEFINE E == [k : {"port", "net", "instance"}, of : X]
           a == Part("port", ports)
           b == Part("net", nets)
           c == Part("instance", comps)
<1>1. /\ Len(ports) \in Nat /\ Len(nets) \in Nat /\ Len(comps) \in Nat
      /\ [k : {"port"}, of : X] \subseteq E /\ [k : {"net"}, of : X] \subseteq E
      /\ [k : {"instance"}, of : X] \subseteq E
  OBVIOUS
<1>2. a \in Seq([k : {"port"}, of : X]) /\ b \in Seq([k : {"net"}, of : X]) /\ c \in Seq([k : {"instance"}, of : X])
  <2>1. a \in Seq([k : {"port"}, of : X])
    BY PartFacts
  <2>2. b \in Seq([k : {"net"}, of : X])
    BY PartFacts
  <2>3. c \in Seq([k : {"instance"}, of : X])
    BY PartFacts
  <2> QED BY <2>1, <2>2, <2>3
<1>3. Len(a) = Len(ports) /\ Len(b) = Len(nets) /\ Len(c) = Len(comps)
  BY PartFacts
<1>4. \A i \in 1 .. Len(ports) : a[i].k = "port" /\ a[i].of = ports[i]
  BY <1>1 DEF Part
<1>5. \A i \in 1 .. Len(nets) : b[i].k = "net" /\ b[i].of = nets[i]
  BY <1>1 DEF Part
<1>6. \A i \in 1 .. Len(comps) : c[i].k = "instance" /\ c[i].of = comps[i]
  BY <1>1 DEF Part
<1> HIDE DEF E, a, b, c
<1>7. a \in Seq(E) /\ b \in Seq(E) /\ c \in Seq(E)
  <2>1. \A S : S \subseteq E => Seq(S) \subseteq Seq(E)
    OBVIOUS
  <2> QED BY <1>1, <1>2, <2>1, Zenon
<1>8. /\ Joined(Joined(a, b), c) \in Seq(E)
      /\ Len(Joined(Joined(a, b), c)) = Len(a) + Len(b) + Len(c)
      /\ Placed(a, 0, Joined(Joined(a, b), c))
      /\ Placed(b, Len(a), Joined(Joined(a, b), c))
      /\ Placed(c, Len(a) + Len(b), Joined(Joined(a, b), c))
  BY <1>7, ThreeParts
<1>9. PICK B \in Seq(E) : B = Joined(Joined(a, b), c)
  BY <1>8
<1>10. Len(B) = Len(ports) + Len(nets) + Len(comps)
  BY <1>3, <1>8, <1>9, Zenon
<1>11. Placed(a, 0, B) /\ Placed(b, Len(ports), B) /\ Placed(c, Len(ports) + Len(nets), B)
  BY <1>3, <1>8, <1>9, Zenon
<1>12. ASSUME NEW i \in 1 .. Len(ports) PROVE B[i].k = "port" /\ B[i].of = ports[i]
  <2>1. B[0 + i] = a[i] /\ 0 + i = i
    BY <1>3, <1>11 DEF Placed
  <2> QED BY <1>4, <2>1, Zenon
<1>13. ASSUME NEW i \in 1 .. Len(nets) PROVE B[Len(ports) + i].k = "net" /\ B[Len(ports) + i].of = nets[i]
  <2>1. B[Len(ports) + i] = b[i]
    BY <1>3, <1>11 DEF Placed
  <2> QED BY <1>5, <2>1, Zenon
<1>14. ASSUME NEW i \in 1 .. Len(comps)
       PROVE  B[Len(ports) + Len(nets) + i].k = "instance" /\ B[Len(ports) + Len(nets) + i].of = comps[i]
  <2>1. B[Len(ports) + Len(nets) + i] = c[i]
    BY <1>3, <1>11 DEF Placed
  <2> QED BY <1>6, <2>1, Zenon
<1>15. B \in Seq(Elements(B))
  BY DEF Elements
<1>16. B = Joints(ports, nets, comps)
  BY <1>9, Zenon DEF Joints, a, b, c
<1>17. Shaped(B, ports, nets, comps)
  BY <1>10, <1>12, <1>13, <1>14, <1>15, Zenon DEF Shaped
<1> QED
  BY <1>16, <1>17, Zenon

(* A body: the declarations, then the instances. *)
Declarations(n) == Len(Body(n)) - Len(SortedComponents(n))

(* Part i of the body of n is part at[i] of one of the lists of n.         *)
Origins(n, list, at) ==
  /\ \A i \in 1 .. Len(Body(n)) :
       /\ list[i] \in Lists /\ at[i] \in DOMAIN Netlist(n)[list[i]]
       /\ Body(n)[i].of = Netlist(n)[list[i]][at[i]]
  /\ \A i, j \in 1 .. Len(Body(n)) : list[i] = list[j] /\ at[i] = at[j] => i = j

(* The parts of a body, by their places. *)
LEMMA BodyFacts ==
  ASSUME design \in Designs, NEW n \in DOMAIN design.netlists
  PROVE  /\ SortedComponents(n) \in Seq(Elements(Netlist(n).comps))
         /\ Body(n) \in Seq(Elements(Body(n)))
         /\ Declarations(n) \in Nat /\ Len(Body(n)) = Declarations(n) + Len(SortedComponents(n))
         /\ \A i \in 1 .. Declarations(n) :
              Body(n)[i].k \in {"port", "net"} /\ Body(n)[i].of.name \in Suggestions
         /\ \A i \in 1 .. Len(SortedComponents(n)) :
              /\ Body(n)[Declarations(n) + i].k = "instance"
              /\ Body(n)[Declarations(n) + i].of = SortedComponents(n)[i]
         /\ \E f : Rearranges(f, Netlist(n).comps, SortedComponents(n))
         /\ \A j \in 1 .. Len(Netlist(n).ports) :
              \E i \in 1 .. Declarations(n) : Body(n)[i].k = "port" /\ Body(n)[i].of = Netlist(n).ports[j]
         /\ \E list, at : Origins(n, list, at)
<1> DEFINE x == Netlist(n).ports
           y == Netlist(n).nets
           z == Netlist(n).comps
<1>0. PICK X : X = Elements(x) \cup Elements(y) \cup Elements(z)
  OBVIOUS
<1>a. x \in Seq(X) /\ y \in Seq(X) /\ z \in Seq(X)
  <2>1. x \in Seq(Elements(x)) /\ y \in Seq(Elements(y)) /\ z \in Seq(Elements(z))
    BY Sorted
  <2> HIDE DEF x, y, z
  <2> QED BY <1>0, <2>1
<1>1. PICK ports \in Seq(X), nets \in Seq(X), comps \in Seq(X) :
        ports = Netlist(n).ports /\ nets = Netlist(n).nets /\ comps = Netlist(n).comps
  BY <1>a
<1> HIDE DEF x, y, z
<1>2. PICK P, R : P = SortedPorts(n) /\ R = SortedComponents(n)
  OBVIOUS
<1>3. /\ Rearranged(comps, R) /\ Rearranged(ports, P) /\ comps \in Seq(Elements(comps))
  BY <1>1, <1>2, Sorted, Zenon
<1>4. P \in Seq(X) /\ Len(P) = Len(ports) /\ \E g : Rearranges(g, ports, P)
  BY <1>3, RearrangedFacts
<1>5. R \in Seq(X) /\ R \in Seq(Elements(comps)) /\ Len(R) = Len(comps) /\ \E f : Rearranges(f, comps, R)
  BY <1>3, RearrangedFacts
<1>6. PICK g : Rearranges(g, ports, P)
  BY <1>4
<1>7. PICK f : Rearranges(f, comps, R)
  BY <1>5
<1>8. PICK B : B = Body(n)
  OBVIOUS
<1>9. B = Joints(P, nets, R)
  BY <1>1, <1>2, <1>8, Zenon DEF Joints, Joined, Body
<1>10. Shaped(Joints(P, nets, R), P, nets, R)
  BY <1>4, <1>5, BodyShape
<1> DEFINE p == Len(ports)
           q == Len(nets)
           r == Len(comps)
<1>11. p \in Nat /\ q \in Nat /\ r \in Nat /\ DOMAIN ports = 1 .. p /\ DOMAIN nets = 1 .. q /\ DOMAIN comps = 1 .. r
  OBVIOUS
<1>12. Len(P) = p /\ Len(R) = r /\ Len(nets) = q /\ Len(ports) = p /\ Len(comps) = r
  BY <1>4, <1>5
<1> HIDE DEF p, q, r
<1>13. /\ B \in Seq(Elements(B)) /\ Len(B) = p + q + r
       /\ \A i \in 1 .. p : B[i].k = "port" /\ B[i].of = P[i]
       /\ \A i \in 1 .. q : B[p + i].k = "net" /\ B[p + i].of = nets[i]
       /\ \A i \in 1 .. r : B[p + q + i].k = "instance" /\ B[p + q + i].of = R[i]
  <2>1. Shaped(B, P, nets, R)
    BY <1>9, <1>10, Zenon
  <2>2. /\ B \in Seq(Elements(B)) /\ Len(B) = Len(P) + Len(nets) + Len(R)
        /\ \A i \in 1 .. Len(P) : B[i].k = "port" /\ B[i].of = P[i]
        /\ \A i \in 1 .. Len(nets) : B[Len(P) + i].k = "net" /\ B[Len(P) + i].of = nets[i]
        /\ \A i \in 1 .. Len(R) :
             B[Len(P) + Len(nets) + i].k = "instance" /\ B[Len(P) + Len(nets) + i].of = R[i]
    BY <2>1, Zenon DEF Shaped
  <2>3. B \in Seq(Elements(B)) /\ Len(B) = p + q + r
    BY <1>12, <2>2, Zenon
  <2>4. \A i \in 1 .. p : B[i].k = "port" /\ B[i].of = P[i]
    BY <1>12, <2>2, Zenon
  <2>5. \A i \in 1 .. q : B[p + i].k = "net" /\ B[p + i].of = nets[i]
    BY <1>12, <2>2, Zenon
  <2>6. \A i \in 1 .. r : B[p + q + i].k = "instance" /\ B[p + q + i].of = R[i]
    BY <1>12, <2>2, Zenon
  <2> QED BY <2>3, <2>4, <2>5, <2>6
<1>14. /\ \A i \in 1 .. p : g[i] \in 1 .. p /\ P[i] = ports[g[i]]
       /\ \A i, j \in 1 .. p : g[i] = g[j] => i = j
       /\ \A i \in 1 .. p : \E k \in 1 .. p : g[k] = i
  BY <1>6, <1>12, Zenon DEF Rearranges
<1>15. /\ \A i \in 1 .. r : f[i] \in 1 .. r /\ R[i] = comps[f[i]]
       /\ \A i, j \in 1 .. r : f[i] = f[j] => i = j
  BY <1>7, <1>12, Zenon DEF Rearranges
<1>16. Declarations(n) = p + q
  BY <1>2, <1>8, <1>11, <1>12, <1>13 DEF Declarations
<1>18. /\ \A i \in 1 .. p : ports[i].name \in Suggestions
       /\ \A i \in 1 .. q : nets[i].name \in Suggestions
  <2>1. "ports" \in Lists /\ "nets" \in Lists /\ "ports" # "comps" /\ "nets" # "comps"
    BY DEF Lists
  <2>2. /\ \A i \in DOMAIN Netlist(n)["ports"] : Netlist(n)["ports"][i].name \in Suggestions
        /\ \A i \in DOMAIN Netlist(n)["nets"] : Netlist(n)["nets"][i].name \in Suggestions
    BY <2>1, DesignFacts
  <2>3. /\ \A i \in DOMAIN Netlist(n).ports : Netlist(n).ports[i].name \in Suggestions
        /\ \A i \in DOMAIN Netlist(n).nets : Netlist(n).nets[i].name \in Suggestions
    BY <2>2
  <2> QED BY <1>1, <1>11, <2>3, Zenon
<1>19. \A i \in 1 .. p + q + r : \/ i \in 1 .. p
                                 \/ \E j \in 1 .. q : i = p + j
                                 \/ \E j \in 1 .. r : i = p + q + j
  <2> SUFFICES ASSUME NEW i \in 1 .. p + q + r, i \notin 1 .. p
               PROVE  \/ i - p \in 1 .. q /\ i = p + (i - p)
                      \/ i - (p + q) \in 1 .. r /\ i = p + q + (i - (p + q))
    OBVIOUS
  <2> QED BY <1>11
<1>20. \A i \in 1 .. p + q : B[i].k \in {"port", "net"} /\ B[i].of.name \in Suggestions
  <2> SUFFICES ASSUME NEW i \in 1 .. p + q
               PROVE  B[i].k \in {"port", "net"} /\ B[i].of.name \in Suggestions
    OBVIOUS
  <2>1. CASE i \in 1 .. p
    <3>1. B[i].k = "port" /\ B[i].of = P[i]
      BY <1>13, <2>1
    <3>2. P[i] = ports[g[i]] /\ g[i] \in 1 .. p
      BY <1>14, <2>1
    <3> QED BY <1>18, <3>1, <3>2
  <2>2. CASE i \notin 1 .. p
    <3>1. i - p \in 1 .. q /\ i = p + (i - p)
      BY <1>11, <2>2
    <3>2. B[i].k = "net" /\ B[i].of = nets[i - p]
      BY <1>13, <3>1
    <3> QED BY <1>18, <3>1, <3>2
  <2> QED BY <2>1, <2>2
<1>21. \A j \in 1 .. p : \E i \in 1 .. p + q : B[i].k = "port" /\ B[i].of = ports[j]
  <2> SUFFICES ASSUME NEW j \in 1 .. p
               PROVE  \E i \in 1 .. p + q : B[i].k = "port" /\ B[i].of = ports[j]
    OBVIOUS
  <2>1. PICK i \in 1 .. p : g[i] = j
    BY <1>14
  <2>2. i \in 1 .. p + q
    BY <1>11
  <2>3. B[i].k = "port" /\ B[i].of = P[i]
    BY <1>13
  <2>4. P[i] = ports[j]
    BY <1>14, <2>1
  <2>5. B[i].of = ports[j]
    BY <2>3, <2>4, Zenon
  <2> QED BY <2>2, <2>3, <2>5, Zenon
<1>22. PICK list : list = [i \in 1 .. p + q + r |-> IF i <= p THEN "ports" ELSE IF i <= p + q THEN "nets" ELSE "comps"]
  OBVIOUS
<1>t. PICK at : at = [i \in 1 .. p + q + r |-> IF i <= p THEN g[i] ELSE IF i <= p + q THEN i - p ELSE f[i - (p + q)]]
  OBVIOUS
<1>23. \A i \in 1 .. p + q + r :
              \/ i \in 1 .. p /\ list[i] = "ports" /\ at[i] = g[i]
              \/ i - p \in 1 .. q /\ list[i] = "nets" /\ at[i] = i - p
              \/ i - (p + q) \in 1 .. r /\ list[i] = "comps" /\ at[i] = f[i - (p + q)]
  BY <1>11, <1>22, <1>t
<1>24. /\ DOMAIN Netlist(n)["ports"] = 1 .. p /\ DOMAIN Netlist(n)["nets"] = 1 .. q
       /\ DOMAIN Netlist(n)["comps"] = 1 .. r
       /\ \A i : Netlist(n)["ports"][i] = ports[i] /\ Netlist(n)["nets"][i] = nets[i]
                 /\ Netlist(n)["comps"][i] = comps[i]
       /\ {"ports", "nets", "comps"} \subseteq Lists
  <2>1. ports = Netlist(n)["ports"] /\ nets = Netlist(n)["nets"] /\ comps = Netlist(n)["comps"]
    BY <1>1
  <2> QED BY <1>11, <2>1, Zenon DEF Lists
<1>25. \A i \in 1 .. p + q + r :
         /\ list[i] \in Lists /\ at[i] \in DOMAIN Netlist(n)[list[i]]
         /\ B[i].of = Netlist(n)[list[i]][at[i]]
  <2> SUFFICES ASSUME NEW i \in 1 .. p + q + r
               PROVE  /\ list[i] \in Lists /\ at[i] \in DOMAIN Netlist(n)[list[i]]
                      /\ B[i].of = Netlist(n)[list[i]][at[i]]
    OBVIOUS
  <2>1. CASE i \in 1 .. p /\ list[i] = "ports" /\ at[i] = g[i]
    <3>1. B[i].of = P[i]
      BY <1>13, <2>1
    <3>2. P[i] = ports[g[i]] /\ g[i] \in 1 .. p
      BY <1>14, <2>1
    <3> QED BY <1>24, <2>1, <3>1, <3>2, Zenon
  <2>2. CASE i - p \in 1 .. q /\ list[i] = "nets" /\ at[i] = i - p
    <3>1. p + (i - p) = i
      BY <1>11
    <3>2. B[p + (i - p)].of = nets[i - p]
      BY <1>13, <2>2, Zenon
    <3> QED BY <1>24, <2>2, <3>1, <3>2, Zenon
  <2>3. CASE i - (p + q) \in 1 .. r /\ list[i] = "comps" /\ at[i] = f[i - (p + q)]
    <3>1. PICK h \in 1 .. r : h = i - (p + q) /\ p + q + h = i
      BY <1>11, <2>3
    <3>2. B[p + q + h].of = R[h] /\ R[h] = comps[f[h]] /\ f[h] \in 1 .. r
      BY <1>13, <1>15, Zenon
    <3> QED BY <1>24, <2>3, <3>1, <3>2, Zenon
  <2> QED BY <1>23, <2>1, <2>2, <2>3
<1>26. \A i, j \in 1 .. p + q + r : list[i] = list[j] /\ at[i] = at[j] => i = j
  <2> SUFFICES ASSUME NEW i \in 1 .. p + q + r, NEW j \in 1 .. p + q + r, list[i] = list[j], at[i] = at[j]
               PROVE  i = j
    OBVIOUS
  <2>1. CASE i \in 1 .. p /\ list[i] = "ports" /\ at[i] = g[i]
    <3>1. list[j] # "nets" /\ list[j] # "comps"
      BY <2>1
    <3>2. j \in 1 .. p /\ at[j] = g[j]
      BY <1>23, <3>1, Zenon
    <3>3. g[i] = g[j]
      BY <2>1, <3>2, Zenon
    <3> QED BY <1>14, <2>1, <3>2, <3>3, Zenon
  <2>2. CASE i - p \in 1 .. q /\ list[i] = "nets" /\ at[i] = i - p
    <3>1. list[j] # "ports" /\ list[j] # "comps"
      BY <2>2
    <3>2. at[j] = j - p
      BY <1>23, <3>1, Zenon
    <3>3. i - p = j - p
      BY <2>2, <3>2, Zenon
    <3> QED BY <1>11, <3>3
  <2>3. CASE i - (p + q) \in 1 .. r /\ list[i] = "comps" /\ at[i] = f[i - (p + q)]
    <3>1. list[j] # "ports" /\ list[j] # "nets"
      BY <2>3
    <3>2. j - (p + q) \in 1 .. r /\ at[j] = f[j - (p + q)]
      BY <1>23, <3>1, Zenon
    <3>3. f[i - (p + q)] = f[j - (p + q)]
      BY <2>3, <3>2, Zenon
    <3>4. i - (p + q) = j - (p + q)
      BY <1>15, <2>3, <3>2, <3>3, Zenon
    <3> QED BY <1>11, <3>4
  <2> QED BY <1>23, <2>1, <2>2, <2>3
<1>27. p + q \in Nat /\ Len(B) = p + q + Len(R) /\ 1 .. Len(B) = 1 .. p + q + r
  BY <1>11, <1>12, <1>13
<1>28. Origins(n, list, at)
  BY <1>8, <1>25, <1>26, <1>27, Zenon DEF Origins
<1>29. SortedComponents(n) \in Seq(Elements(Netlist(n).comps)) /\ Body(n) \in Seq(Elements(Body(n)))
  BY <1>1, <1>2, <1>5, <1>8, <1>13, Zenon
<1>30. Declarations(n) \in Nat /\ Len(Body(n)) = Declarations(n) + Len(SortedComponents(n))
  BY <1>2, <1>8, <1>16, <1>27, Zenon
<1>31. \A i \in 1 .. Declarations(n) : Body(n)[i].k \in {"port", "net"} /\ Body(n)[i].of.name \in Suggestions
  BY <1>8, <1>16, <1>20, Zenon
<1>32. \A i \in 1 .. Len(SortedComponents(n)) :
              /\ Body(n)[Declarations(n) + i].k = "instance"
              /\ Body(n)[Declarations(n) + i].of = SortedComponents(n)[i]
  <2> SUFFICES ASSUME NEW i \in 1 .. Len(SortedComponents(n))
               PROVE  /\ Body(n)[Declarations(n) + i].k = "instance"
                      /\ Body(n)[Declarations(n) + i].of = SortedComponents(n)[i]
    OBVIOUS
  <2>1. i \in 1 .. r
    BY <1>2, <1>12, Zenon
  <2>2. B[p + q + i].k = "instance" /\ B[p + q + i].of = R[i]
    BY <1>13, <2>1
  <2> QED BY <1>2, <1>8, <1>16, <2>2, Zenon
<1>33. \E h : Rearranges(h, Netlist(n).comps, SortedComponents(n))
  BY <1>1, <1>2, <1>5, Zenon
<1>34. \A j \in 1 .. Len(Netlist(n).ports) :
              \E i \in 1 .. Declarations(n) : Body(n)[i].k = "port" /\ Body(n)[i].of = Netlist(n).ports[j]
  BY <1>1, <1>8, <1>12, <1>16, <1>21, Zenon
<1> QED
  BY <1>28, <1>29, <1>30, <1>31, <1>32, <1>33, <1>34, Zenon

(* An id is that of one thing. *)
LEMMA OneId ==
  ASSUME design \in Designs, NEW m \in DOMAIN design.netlists, NEW n \in DOMAIN design.netlists,
         NEW p \in Lists, NEW q \in Lists, NEW i \in DOMAIN Netlist(m)[p], NEW j \in DOMAIN Netlist(n)[q],
         Netlist(m)[p][i].id = Netlist(n)[q][j].id
  PROVE  m = n /\ p = q /\ i = j
<1>1. \A o, u \in DOMAIN design.netlists : \A a, b \in Lists :
        \A k \in DOMAIN Netlist(o)[a], l \in DOMAIN Netlist(u)[b] :
          Netlist(o)[a][k].id = Netlist(u)[b][l].id => o = u /\ a = b /\ k = l
  BY DesignFacts, Zenon
<1>2. \A a, b \in Lists : \A k \in DOMAIN Netlist(m)[a], l \in DOMAIN Netlist(n)[b] :
        Netlist(m)[a][k].id = Netlist(n)[b][l].id => m = n /\ a = b /\ k = l
  BY <1>1, Zenon
<1>3. \A k \in DOMAIN Netlist(m)[p], l \in DOMAIN Netlist(n)[q] :
        Netlist(m)[p][k].id = Netlist(n)[q][l].id => m = n /\ p = q /\ k = l
  BY <1>2, Zenon
<1> QED
  BY <1>3, Zenon

(* No two parts of bodies have an id in common. *)
LEMMA BodyIds ==
  ASSUME design \in Designs
  PROVE  /\ \A n \in DOMAIN design.netlists : \A i \in 1 .. Len(Body(n)) :
              Body(n)[i].of.id \in Objects \ DOMAIN design.netlists
         /\ \A m, n \in DOMAIN design.netlists :
              \A i \in 1 .. Len(Body(m)), j \in 1 .. Len(Body(n)) :
                Body(m)[i].of.id = Body(n)[j].of.id => m = n /\ i = j
<1>0. \A n \in DOMAIN design.netlists : \E l, a : Origins(n, l, a)
  BY BodyFacts, Zenon
<1>1. ASSUME NEW n \in DOMAIN design.netlists, NEW i \in 1 .. Len(Body(n))
      PROVE  Body(n)[i].of.id \in Objects \ DOMAIN design.netlists
  <2>1. PICK l, a : Origins(n, l, a)
    BY <1>0
  <2>2. PICK p \in Lists : p = l[i] /\ a[i] \in DOMAIN Netlist(n)[p] /\ Body(n)[i].of = Netlist(n)[p][a[i]]
    BY <2>1, Zenon DEF Origins
  <2>3. \A q \in Lists : \A k \in DOMAIN Netlist(n)[q] : Netlist(n)[q][k].id \in Objects \ DOMAIN design.netlists
    BY DesignFacts, Zenon
  <2>4. Netlist(n)[p][a[i]].id \in Objects \ DOMAIN design.netlists
    BY <2>2, <2>3, Zenon
  <2> QED BY <2>2, <2>4, Zenon
<1>2. ASSUME NEW m \in DOMAIN design.netlists, NEW n \in DOMAIN design.netlists,
             NEW i \in 1 .. Len(Body(m)), NEW j \in 1 .. Len(Body(n)), Body(m)[i].of.id = Body(n)[j].of.id
      PROVE  m = n /\ i = j
  <2>1. PICK l, a : Origins(m, l, a)
    BY <1>0
  <2>2. PICK k, b : Origins(n, k, b)
    BY <1>0
  <2>3. PICK p \in Lists : p = l[i] /\ a[i] \in DOMAIN Netlist(m)[p] /\ Body(m)[i].of = Netlist(m)[p][a[i]]
    BY <2>1, Zenon DEF Origins
  <2>4. PICK q \in Lists : q = k[j] /\ b[j] \in DOMAIN Netlist(n)[q] /\ Body(n)[j].of = Netlist(n)[q][b[j]]
    BY <2>2, Zenon DEF Origins
  <2>5. Netlist(m)[p][a[i]].id = Netlist(n)[q][b[j]].id
    BY <1>2, <2>3, <2>4, Zenon
  <2>6. m = n
    BY OneId, <2>3, <2>4, <2>5, Zenon
  <2>7. PICK r \in Lists : r = l[j] /\ a[j] \in DOMAIN Netlist(m)[r] /\ Body(m)[j].of = Netlist(m)[r][a[j]]
    BY <2>1, <2>6, Zenon DEF Origins
  <2>8. Netlist(m)[p][a[i]].id = Netlist(m)[r][a[j]].id
    BY <1>2, <2>3, <2>6, <2>7, Zenon
  <2>9. a[i] \in DOMAIN Netlist(m)[p] /\ a[j] \in DOMAIN Netlist(m)[r]
    BY <2>3, <2>7, Zenon
  <2>10. p = r /\ a[i] = a[j]
    <3> HIDE DEF Lists
    <3> QED BY OneId, <2>8, <2>9
  <2>11. l[i] = l[j]
    BY <2>3, <2>7, <2>10, Zenon
  <2>12. \A x, y \in 1 .. Len(Body(m)) : l[x] = l[y] /\ a[x] = a[y] => x = y
    BY <2>1, Zenon DEF Origins
  <2>13. i = j
    BY <2>6, <2>10, <2>11, <2>12, Zenon
  <2> QED BY <2>6, <2>13
<1> QED
  BY <1>1, <1>2
-----------------------------------------------------------------------------
(* What the actions do to the names, the stack and the text. *)

(* The definitions of the design do not change. *)
LEMMA Static ==
  ASSUME design' = design
  PROVE  /\ \A n : /\ Netlist(n)' = Netlist(n) /\ Body(n)' = Body(n)
                   /\ SortedComponents(n)' = SortedComponents(n)
         /\ \A f : (FrameOK(f)' <=> FrameOK(f)) /\ All(f)' = All(f) /\ Taken(f)' = Taken(f)
         /\ \A f, g : Waits(f, g)' <=> Waits(f, g)
         /\ \A f, b : Delivered(f, b)' = Delivered(f, b)
<1>1. \A n : Netlist(n)' = Netlist(n)
  BY DEF Netlist
<1>2. \A n : SortedComponents(n)' = SortedComponents(n)
  BY <1>1 DEF SortedComponents
<1>3. \A n : SortedPorts(n)' = SortedPorts(n)
  BY <1>1 DEF SortedPorts
<1>4. \A n : Body(n)' = Body(n)
  BY <1>1, <1>2, <1>3 DEF Body
<1>5. \A f : All(f)' = All(f)
  BY <1>2, <1>4 DEF All
<1>6. \A f : Taken(f)' = Taken(f)
  BY <1>5 DEF Taken
<1>7. \A f : FrameOK(f)' <=> FrameOK(f)
  BY <1>5, <1>6 DEF FrameOK
<1>8. \A f, g : Waits(f, g)' <=> Waits(f, g)
  BY <1>2, <1>6 DEF Waits
<1>9. \A f, b : Delivered(f, b)' = Delivered(f, b)
  BY <1>2, <1>6 DEF Delivered
<1> QED
  BY <1>1, <1>2, <1>4, <1>5, <1>6, <1>7, <1>8, <1>9

(* A step that leaves the scope alone. *)
LEMMA UnchangedStep ==
  ASSUME IInv, UNCHANGED vars
  PROVE  IInv'
  BY DEF vars, IInv, LevelsType, ObjectsType, Entries, Registered, Shadowing, Counted,
         OccupiedExplained, Counter, holders

(* The three outcomes of naming an object. *)
Throws(obj) ==
  /\ obj \notin DOMAIN all_names /\ occupied' # NoError
  /\ UNCHANGED <<items, all_names, home>>
  /\ \A o \in DOMAIN all_names : asked'[o] = asked[o]

Gets(obj, n, l) ==
  /\ obj \notin DOMAIN all_names /\ occupied' = NoError
  /\ DOMAIN all_names' = DOMAIN all_names \cup {obj}
  /\ \A o \in DOMAIN all_names : all_names'[o] = all_names[o] /\ home'[o] = home[o] /\ asked'[o] = asked[o]
  /\ home'[obj] = l /\ asked'[obj] = n
  /\ Len(items') = Len(items)

Keeps(obj) == obj \in DOMAIN all_names /\ UNCHANGED nameVars

(* Naming an object has three outcomes: it has its name, it gets one in    *)
(* the level that it asks for, or NameOccupiedErr is thrown.               *)
LEMMA NamedAsFacts ==
  ASSUME IInv, occupied = NoError, NEW n \in Suggestions, NEW obj \in Objects, NEW isGlobal \in BOOLEAN,
         NamedAs(n, obj, isGlobal)
  PROVE  /\ IInv'
         /\ Keeps(obj) \/ Throws(obj) \/ Gets(obj, n, IF isGlobal THEN 1 ELSE Len(items))
<1>1. CASE obj \in DOMAIN all_names
  <2>1. UNCHANGED nameVars
    BY <1>1 DEF NamedAs
  <2>2. IInv'
    <3>1. UNCHANGED vars
      BY <2>1 DEF nameVars, vars
    <3> QED BY <3>1, UnchangedStep
  <2> QED BY <1>1, <2>1, <2>2 DEF Keeps
<1>2. CASE obj \notin DOMAIN all_names
  <2>1. checkedName(n, obj, isGlobal)
    BY <1>2 DEF NamedAs
  <2>2. IInv'
    BY <2>1, CheckedNameStep
  <2> DEFINE l == IF isGlobal THEN 1 ELSE Len(items)
  <2>3. get_suggested_name(l, n, obj) \/ get_numbered_name(l, n, obj)
    BY <2>1 DEF checkedName
  <2>4. asked' = WithEntry(obj, n, asked)
    BY <2>1 DEF checkedName
  <2>5. asked'[obj] = n /\ \A o \in DOMAIN all_names : asked'[o] = asked[o]
    <3>1. DOMAIN all_names \subseteq DOMAIN asked
      BY DEF IInv, ObjectsType
    <3> QED BY <1>2, <2>4, <3>1 DEF WithEntry
  <2>6. ASSUME NEW m, Give(l, m, obj) PROVE Gets(obj, n, l)
    <3>1. occupied' = NoError
      BY <2>6 DEF Give
    <3>2. DOMAIN all_names' = DOMAIN all_names \cup {obj}
          /\ \A o \in DOMAIN all_names : all_names'[o] = all_names[o]
      BY <1>2, <2>6 DEF Give, WithEntry
    <3>3. home'[obj] = l /\ \A o \in DOMAIN all_names : home'[o] = home[o]
      <4>1. home \in [Objects -> 0 .. Len(items)] /\ DOMAIN all_names \subseteq Objects
        BY DEF IInv, ObjectsType, NameMaps
      <4>2. home' = [home EXCEPT ![obj] = l]
        BY <2>6 DEF Give
      <4> HIDE DEF l
      <4> QED BY <1>2, <4>1, <4>2
    <3>4. Len(items') = Len(items)
      <4>1. __registerName(l, m, obj)
        BY <2>6 DEF Give
      <4>2. items \in Seq(ItemMaps)
        BY DEF IInv, LevelsType
      <4> HIDE DEF l
      <4> QED BY <4>1, <4>2 DEF __registerName
    <3> QED BY <1>2, <2>5, <3>1, <3>2, <3>3, <3>4 DEF Gets
  <2>7. CASE get_suggested_name(l, n, obj)
    <3>1. Give(l, n, obj)
      BY <2>7 DEF get_suggested_name
    <3> QED BY <2>2, <2>6, <3>1
  <2>8. CASE get_numbered_name(l, n, obj)
    <3> DEFINE usable == WithNumber(n, Counter(l, WithUnderscore(n)) + 1)
    <3>1. \/ Give(l, usable, obj)
          \/ occupied' = <<obj, l, usable>> /\ UNCHANGED <<items, all_names, home, order>>
      BY <2>8 DEF get_numbered_name
    <3>2. ASSUME occupied' = <<obj, l, usable>>, UNCHANGED <<items, all_names, home, order>>
          PROVE  Throws(obj)
      <4>1. obj # NoObject
        BY ObjectsAssumption
      <4>2. occupied' # NoError
        BY <3>2, <4>1 DEF NoError
      <4> QED BY <1>2, <2>5, <3>2, <4>2 DEF Throws
    <3> QED BY <2>2, <2>6, <3>1, <3>2
  <2> QED BY <2>3, <2>7, <2>8
<1> QED
  BY <1>1, <1>2
-----------------------------------------------------------------------------
(* Changes of the stack. *)
Swapped(f) ==
  /\ stack' \in Seq(Elements(stack')) /\ Len(stack') = Len(stack)
  /\ stack'[Len(stack)] = f /\ \A i \in 1 .. Len(stack) - 1 : stack'[i] = stack[i]

Swap(s, f, r) ==
  /\ Len(s) \in Nat \ {0} /\ Last(s) = s[Len(s)]
  /\ r \in Seq(Elements(s) \cup {f}) /\ Len(r) = Len(s)
  /\ r[Len(s)] = f /\ \A i \in 1 .. Len(s) - 1 : r[i] = s[i]

Shorter(s, t) ==
  t \in Seq(Elements(s)) /\ Len(t) = Len(s) - 1 /\ \A i \in 1 .. Len(s) - 1 : t[i] = s[i]

(* Another last item, and no last item. *)
LEMMA SequenceFacts ==
  ASSUME NEW s, s \in Seq(Elements(s)), s # << >>, NEW f, NEW r, r = Append(Front(s), f)
  PROVE  Swap(s, f, r) /\ Shorter(s, Front(s))
<1>1. PICK X : X = Elements(s)
  OBVIOUS
<1>2. s \in Seq(X)
  BY <1>1
<1>3. Len(s) \in Nat \ {0}
  BY <1>2
<1>4. Front(s) \in Seq(X) /\ Len(Front(s)) = Len(s) - 1 /\ \A i \in 1 .. Len(s) - 1 : Front(s)[i] = s[i]
  <2>1. PICK m \in Nat : m = Len(s) - 1
    BY <1>3
  <2>2. SubSeq(s, 1, m) \in Seq(X) /\ Len(SubSeq(s, 1, m)) = m
    BY <1>2, <1>3, <2>1
  <2>3. \A i \in 1 .. m : SubSeq(s, 1, m)[i] = s[i]
    BY <1>2, <1>3, <2>1
  <2> QED BY <2>1, <2>2, <2>3, Zenon DEF Front
<1>5. PICK t \in Seq(X) : t = Front(s)
  BY <1>4
<1>r. r = Append(t, f)
  BY <1>5
<1>6. t \in Seq(X \cup {f}) /\ f \in X \cup {f}
  OBVIOUS
<1>7. r \in Seq(X \cup {f}) /\ Len(r) = Len(t) + 1 /\ r[Len(t) + 1] = f
      /\ \A i \in 1 .. Len(t) : r[i] = t[i]
  BY <1>6, <1>r
<1>8. Len(t) = Len(s) - 1 /\ \A i \in 1 .. Len(s) - 1 : t[i] = s[i]
  BY <1>4, <1>5, Zenon
<1>9. Len(t) + 1 = Len(s) /\ 1 .. Len(t) = 1 .. Len(s) - 1
  BY <1>3, <1>8
<1>10. r \in Seq(X \cup {f}) /\ Len(r) = Len(s) /\ r[Len(s)] = f /\ \A i \in 1 .. Len(s) - 1 : r[i] = s[i]
  BY <1>7, <1>8, <1>9
<1>11. Last(s) = s[Len(s)]
  BY DEF Last
<1> QED
  BY <1>1, <1>3, <1>4, <1>5, <1>10, <1>11, Zenon DEF Swap, Shorter

(* A list is one over the items that it has. *)
LEMMA OwnElements ==
  ASSUME NEW X, NEW s \in Seq(X)
  PROVE  s \in Seq(Elements(s)) /\ DOMAIN s = 1 .. Len(s) /\ Len(s) \in Nat
  BY DEF Elements

(* Put changes the frame on top. *)
LEMMA PutFacts ==
  ASSUME stack \in Seq(Elements(stack)), stack # << >>, NEW f, stack' = Append(Front(stack), f)
  PROVE  Swapped(f) /\ stack' # << >> /\ Top' = f /\ Len(stack) \in Nat \ {0} /\ Top = stack[Len(stack)]
<1>1. PICK s, r : s = stack /\ r = Append(Front(s), f)
  OBVIOUS
<1>0. s \in Seq(Elements(s)) /\ s # << >>
  BY <1>1
<1>2. /\ Len(s) \in Nat \ {0} /\ Last(s) = s[Len(s)]
      /\ r \in Seq(Elements(s) \cup {f}) /\ Len(r) = Len(s)
      /\ r[Len(s)] = f /\ \A i \in 1 .. Len(s) - 1 : r[i] = s[i]
  <2>1. Swap(s, f, r)
    BY <1>0, <1>1, SequenceFacts, Zenon
  <2> QED BY <2>1, Zenon DEF Swap
<1>3. r \in Seq(Elements(r)) /\ r # << >>
  BY <1>2, OwnElements
<1>4. stack' = r
  BY <1>1
<1>5. Swapped(f)
  BY <1>1, <1>2, <1>3, <1>4, Zenon DEF Swapped
<1>6. Top' = f
  <2>1. Top' = r[Len(r)]
    BY <1>4 DEF Top, Last
  <2> QED BY <1>2, <2>1, Zenon
<1>7. Top = s[Len(s)]
  BY <1>1, <1>2, Zenon DEF Top
<1>8. Len(stack) \in Nat \ {0} /\ stack[Len(stack)] = s[Len(s)] /\ stack' # << >>
  BY <1>1, <1>2, <1>3, <1>4, Zenon
<1> QED
  BY <1>5, <1>6, <1>7, <1>8, Zenon

(* The list without its first item. *)
LEMMA TailOfSeq ==
  ASSUME NEW S, NEW s \in Seq(S), s # << >>
  PROVE  /\ Tail(s) \in Seq(S) /\ Len(Tail(s)) = Len(s) - 1 /\ Len(s) > 0 /\ Head(s) = s[1] /\ Len(s) \in Nat
         /\ \A i \in 1 .. Len(Tail(s)) : Tail(s)[i] = s[i + 1]
  OBVIOUS

(* What is done is of the whole. *)
LEMMA AllIsSeq ==
  ASSUME design \in Designs, NEW f, FrameOK(f)
  PROVE  /\ All(f) \in Seq(Elements(All(f))) /\ Len(All(f)) \in Nat /\ Len(f.todo) \in Nat
         /\ Taken(f) \in 0 .. Len(All(f)) /\ Len(f.todo) = Len(All(f)) - Taken(f)
         /\ SortedComponents(f.of) \in Seq(Elements(SortedComponents(f.of)))
         /\ Body(f.of) \in Seq(Elements(Body(f.of)))
<1>1. f.of \in DOMAIN design.netlists
  BY DEF FrameOK
<1>2. SortedComponents(f.of) \in Seq(Elements(Netlist(f.of).comps)) /\ Body(f.of) \in Seq(Elements(Body(f.of)))
  BY <1>1, BodyFacts
<1>3. SortedComponents(f.of) \in Seq(Elements(SortedComponents(f.of)))
  BY <1>2, OwnElements
<1>4. PICK a : a = All(f)
  OBVIOUS
<1>5. a \in Seq(Elements(a))
  BY <1>2, <1>3, <1>4 DEF All
<1>6. Len(a) \in Nat
  BY <1>5, OwnElements
<1>7. PICK t : t = f.todo /\ t \in Seq(Elements(t)) /\ Len(t) <= Len(a)
  BY <1>4 DEF FrameOK
<1>8. Len(t) \in Nat
  BY <1>7, OwnElements
<1>9. Taken(f) = Len(a) - Len(t)
  BY <1>4, <1>7 DEF Taken
<1>10. Taken(f) \in 0 .. Len(a) /\ Len(t) = Len(a) - Taken(f)
  BY <1>6, <1>7, <1>8, <1>9
<1> QED
  BY <1>2, <1>3, <1>4, <1>5, <1>6, <1>7, <1>8, <1>10, Zenon

(* A frame that is done with one more. *)
LEMMA TailOK ==
  ASSUME design \in Designs, NEW t, FrameOK(t), t.todo # << >>, NEW g, g = [t EXCEPT !.todo = Tail(@)]
  PROVE  /\ FrameOK(g) /\ g.of = t.of /\ g.stage = t.stage /\ All(g) = All(t)
         /\ Taken(g) = Taken(t) + 1 /\ Taken(g) \in 1 .. Len(All(t)) /\ Taken(t) \in Nat
         /\ Head(t.todo) = All(t)[Taken(g)]
<1>1. t \in [of : DOMAIN design.netlists, stage : Stages, todo : {t.todo}] /\ t.stage # "head"
  BY DEF FrameOK
<1>2. g.of = t.of /\ g.stage = t.stage /\ g.todo = Tail(t.todo)
      /\ g \in [of : DOMAIN design.netlists, stage : Stages, todo : {g.todo}]
  BY <1>1
<1>3. All(g) = All(t)
  BY <1>2 DEF All
<1>4. PICK a, s : a = All(t) /\ s = t.todo
  OBVIOUS
<1>5. /\ a \in Seq(Elements(a)) /\ Len(a) \in Nat /\ s \in Seq(Elements(s)) /\ Len(s) <= Len(a)
      /\ Taken(t) = Len(a) - Len(s)
      /\ \A i \in 1 .. Len(s) : s[i] = a[Taken(t) + i]
  BY <1>4, AllIsSeq DEF FrameOK, Taken
<1>6. /\ Tail(s) \in Seq(Elements(s)) /\ Len(Tail(s)) = Len(s) - 1 /\ Len(s) > 0 /\ Head(s) = s[1] /\ Len(s) \in Nat
      /\ \A i \in 1 .. Len(Tail(s)) : Tail(s)[i] = s[i + 1]
  BY <1>4, <1>5, TailOfSeq
<1>7. Tail(s) \in Seq(Elements(Tail(s)))
  BY <1>6, OwnElements
<1>8. g.todo = Tail(s)
  BY <1>2, <1>4
<1>9. Taken(g) = Len(a) - Len(Tail(s))
  BY <1>3, <1>4, <1>8 DEF Taken
<1>10. Taken(g) = Taken(t) + 1 /\ Taken(g) \in 1 .. Len(a) /\ Taken(t) \in Nat
  BY <1>5, <1>6, <1>9
<1>11. Head(s) = a[Taken(g)]
  <2>1. 1 \in 1 .. Len(s)
    BY <1>6
  <2>2. s[1] = a[Taken(t) + 1]
    BY <1>5, <2>1
  <2> QED BY <1>6, <1>10, <2>2, Zenon
<1>12. \A i \in 1 .. Len(Tail(s)) : Tail(s)[i] = a[Taken(g) + i]
  <2> SUFFICES ASSUME NEW i \in 1 .. Len(Tail(s)) PROVE Tail(s)[i] = a[Taken(g) + i]
    OBVIOUS
  <2>0. PICK l, m, k : l = Len(s) /\ m = Taken(t) /\ k = Taken(g)
    OBVIOUS
  <2>a. i \in 1 .. l - 1 /\ l \in Nat /\ m \in Nat /\ k = m + 1
    BY <1>6, <1>10, <2>0, Zenon
  <2>b. i + 1 \in 1 .. l /\ m + (i + 1) = k + i
    BY <2>a
  <2>1. i + 1 \in 1 .. Len(s) /\ Taken(t) + (i + 1) = Taken(g) + i
    BY <2>0, <2>b, Zenon
  <2>2. Tail(s)[i] = s[i + 1]
    BY <1>6
  <2>3. s[i + 1] = a[Taken(t) + (i + 1)]
    BY <1>5, <2>1
  <2> QED BY <2>1, <2>2, <2>3
<1>13. Len(Tail(s)) <= Len(a)
  BY <1>5, <1>6
<1>14. FrameOK(g)
  BY <1>1, <1>2, <1>3, <1>4, <1>7, <1>8, <1>12, <1>13 DEF FrameOK
<1> QED
  BY <1>2, <1>3, <1>4, <1>10, <1>11, <1>14

(* A frame whose todo is the whole. *)
LEMMA WholeFrame ==
  ASSUME design \in Designs, NEW n \in DOMAIN design.netlists, NEW f,
         \/ f = [of |-> n, stage |-> "dependencies", todo |-> SortedComponents(n)]
         \/ f = [of |-> n, stage |-> "body", todo |-> Body(n)]
  PROVE  FrameOK(f) /\ f.of = n /\ Taken(f) = 0
<1>1. f.of = n /\ f.stage \in Stages /\ f.stage # "head" /\ All(f) = f.todo
      /\ f \in [of : DOMAIN design.netlists, stage : Stages, todo : {f.todo}]
  BY DEF All, Stages
<1>2. SortedComponents(n) \in Seq(Elements(Netlist(n).comps)) /\ Body(n) \in Seq(Elements(Body(n)))
  BY BodyFacts
<1>3. SortedComponents(n) \in Seq(Elements(SortedComponents(n)))
  BY <1>2, OwnElements
<1>4. PICK t : t = f.todo /\ t \in Seq(Elements(t))
  BY <1>2, <1>3
<1>5. Len(t) \in Nat
  BY <1>4, OwnElements
<1>6. Taken(f) = 0
  BY <1>1, <1>4, <1>5 DEF Taken
<1>7. \A i \in 1 .. Len(t) : t[i] = t[0 + i]
  BY <1>5
<1>8. FrameOK(f)
  BY <1>1, <1>4, <1>5, <1>6, <1>7 DEF FrameOK
<1> QED
  BY <1>1, <1>6, <1>8

(* A frame that goes on to the head of its module. *)
LEMMA HeadFrame ==
  ASSUME design \in Designs, NEW t, FrameOK(t), t.todo = << >>, t.stage = "dependencies", NEW f, f = [t EXCEPT !.stage = "head"]
  PROVE  FrameOK(f) /\ f.of = t.of /\ f.stage = "head" /\ Taken(t) = Len(SortedComponents(t.of))
<1>1. t \in [of : DOMAIN design.netlists, stage : Stages, todo : {t.todo}]
  BY DEF FrameOK
<1>2. f.of = t.of /\ f.stage = "head" /\ f.todo = << >>
      /\ f \in [of : DOMAIN design.netlists, stage : Stages, todo : {f.todo}]
  BY <1>1 DEF Stages
<1>3. All(f) = All(t) /\ All(t) = SortedComponents(t.of)
  BY <1>2 DEF All
<1>4. Len(All(t)) \in Nat
  BY AllIsSeq
<1>5. Len(<< >>) = 0 /\ << >> \in Seq(Elements(<< >>))
  BY DEF Elements
<1>6. Taken(t) = Len(All(t))
  BY <1>4, <1>5 DEF Taken
<1>7. FrameOK(f)
  <2>1. f.todo \in Seq(Elements(f.todo)) /\ Len(f.todo) = 0
    BY <1>2, <1>5, Zenon
  <2>2. Len(f.todo) <= Len(All(f))
    BY <1>3, <1>4, <2>1
  <2>3. \A i \in 1 .. Len(f.todo) : FALSE
    BY <2>1
  <2> QED BY <1>2, <2>1, <2>2, <2>3 DEF FrameOK
<1> QED
  BY <1>2, <1>3, <1>6, <1>7

(* A frame that goes on to the body of its module. *)
LEMMA BodyFrame ==
  ASSUME design \in Designs, NEW t, FrameOK(t), NEW f, f = [t EXCEPT !.stage = "body", !.todo = Body(t.of)]
  PROVE  FrameOK(f) /\ f.of = t.of /\ f.stage = "body" /\ Taken(f) = 0 /\ f.todo = Body(t.of)
<1>1. t \in [of : DOMAIN design.netlists, stage : Stages, todo : {t.todo}]
  BY DEF FrameOK
<1>2. f = [of |-> t.of, stage |-> "body", todo |-> Body(t.of)]
  BY <1>1
<1>3. t.of \in DOMAIN design.netlists
  BY <1>1
<1> QED
  BY <1>2, <1>3, WholeFrame

(* The frame on top, when there is one. *)
LEMMA TopFacts ==
  ASSUME StackOK, stack # << >>
  PROVE  /\ Len(stack) \in Nat \ {0} /\ Top = stack[Len(stack)] /\ FrameOK(Top)
         /\ Top.of \in DOMAIN design.netlists /\ design \in Designs
         /\ Top.of \in Objects /\ Netlist(Top.of).name \in Suggestions
<1>1. PICK s, r : s = stack /\ r = Append(Front(s), 0)
  OBVIOUS
<1>2. s \in Seq(Elements(s)) /\ s # << >>
  BY <1>1 DEF StackOK
<1>3. Len(s) \in Nat \ {0} /\ Last(s) = s[Len(s)]
  <2>1. Swap(s, 0, r)
    BY <1>1, <1>2, SequenceFacts, Zenon
  <2> QED BY <2>1, Zenon DEF Swap
<1>4. Top = stack[Len(stack)] /\ Len(stack) \in Nat \ {0}
  BY <1>1, <1>3, Zenon DEF Top
<1>5. FrameOK(Top)
  BY <1>4 DEF StackOK
<1>6. design \in Designs
  BY DEF StackOK
<1>7. Top.of \in DOMAIN design.netlists
  BY <1>5 DEF FrameOK
<1>8. DOMAIN design.netlists \subseteq Objects /\ \A n \in DOMAIN design.netlists : Netlist(n).name \in Suggestions
  BY <1>6, DesignFacts
<1> QED
  BY <1>4, <1>5, <1>6, <1>7, <1>8

(* Another frame on top. *)
LEMMA StackSwapped ==
  ASSUME StackOK, stack # << >>, UNCHANGED design, NEW f, Swapped(f), stack' # << >>, Top' = f,
         FrameOK(f), f.of = Top.of, Len(items') = IF f.stage = "body" THEN 2 ELSE 1
  PROVE  StackOK'
<1>1. PICK l \in Nat \ {0} : l = Len(stack)
  BY TopFacts
<1>2. /\ stack' \in Seq(Elements(stack')) /\ Len(stack') = l
      /\ stack'[l] = f /\ \A i \in 1 .. l - 1 : stack'[i] = stack[i]
  BY <1>1 DEF Swapped
<1>3. /\ \A i \in 1 .. l : FrameOK(stack[i])
      /\ \A i \in 1 .. l - 1 : Waits(stack[i], stack[i + 1])
  BY <1>1 DEF StackOK
<1>4. ASSUME NEW i \in 1 .. l PROVE FrameOK(stack'[i])
  BY <1>1, <1>2, <1>3
<1>5. ASSUME NEW i \in 1 .. l - 1 PROVE Waits(stack'[i], stack'[i + 1])
  <2>1. CASE i + 1 \in 1 .. l - 1
    BY <1>2, <1>3, <2>1
  <2>2. CASE i + 1 = l
    <3>1. stack'[i] = stack[i] /\ stack'[i + 1] = f
      BY <1>2, <2>2
    <3>2. Waits(stack[i], stack[i + 1]) /\ stack[i + 1] = Top
      BY <1>1, <1>3, <2>2, TopFacts
    <3>3. Waits(stack[i], f)
      BY <3>2 DEF Waits
    <3> QED BY <3>1, <3>3
  <2> QED BY <1>1, <2>1, <2>2
<1>6. Len(items') = IF InBody' THEN 2 ELSE 1
  BY DEF InBody
<1>7. (\A i \in 1 .. l : FrameOK(stack[i])')
  BY <1>4, Static
<1>8. (\A i \in 1 .. l - 1 : Waits(stack[i], stack[i + 1])')
  BY <1>5, Static
<1>9. design' \in Designs
  BY DEF StackOK
<1> QED
  BY <1>2, <1>6, <1>7, <1>8, <1>9 DEF StackOK

(* A frame on top of the top. *)
Pushed(g, f) ==
  /\ stack' \in Seq(Elements(stack')) /\ Len(stack') = Len(stack) + 1
  /\ stack'[Len(stack)] = g /\ stack'[Len(stack) + 1] = f
  /\ \A i \in 1 .. Len(stack) - 1 : stack'[i] = stack[i]

(* A step that changes the frame on top and puts one above it. *)
LEMMA PushFacts ==
  ASSUME StackOK, stack # << >>, NEW g, NEW f, stack' = Append(Append(Front(stack), g), f)
  PROVE  Pushed(g, f) /\ stack' # << >> /\ Top' = f
<1>1. PICK s, r : s = stack /\ r = Append(Front(s), g)
  OBVIOUS
<1>0. s \in Seq(Elements(s)) /\ s # << >>
  BY <1>1 DEF StackOK
<1>2. /\ Len(s) \in Nat \ {0}
      /\ r \in Seq(Elements(s) \cup {g}) /\ Len(r) = Len(s)
      /\ r[Len(s)] = g /\ \A i \in 1 .. Len(s) - 1 : r[i] = s[i]
  <2>1. Swap(s, g, r)
    BY <1>0, <1>1, SequenceFacts, Zenon
  <2> QED BY <2>1, Zenon DEF Swap
<1>3. PICK X : X = Elements(s) \cup {g, f}
  OBVIOUS
<1>4. r \in Seq(X) /\ f \in X
  BY <1>2, <1>3
<1>5. PICK q : q = Append(r, f)
  OBVIOUS
<1>6. q \in Seq(X) /\ Len(q) = Len(r) + 1 /\ q[Len(r) + 1] = f /\ \A i \in 1 .. Len(r) : q[i] = r[i]
  BY <1>4, <1>5
<1>7. PICK l \in Nat \ {0} : l = Len(s)
  BY <1>2
<1>8. /\ Len(q) = l + 1 /\ q[l + 1] = f /\ \A i \in 1 .. l : q[i] = r[i]
      /\ r[l] = g /\ \A i \in 1 .. l - 1 : r[i] = s[i]
  BY <1>2, <1>6, <1>7, Zenon
<1>9. q[l] = g /\ \A i \in 1 .. l - 1 : q[i] = s[i]
  BY <1>7, <1>8
<1>10. q \in Seq(Elements(q)) /\ q # << >>
  BY <1>6, <1>7, <1>8, OwnElements
<1>11. stack' = q /\ Len(stack) = l
  BY <1>1, <1>5, <1>7
<1>12. Pushed(g, f)
  BY <1>1, <1>8, <1>9, <1>10, <1>11, Zenon DEF Pushed
<1>13. Top' = f
  <2>1. Top' = q[Len(q)]
    BY <1>11 DEF Top, Last
  <2> QED BY <1>8, <2>1, Zenon
<1> QED
  BY <1>10, <1>11, <1>12, <1>13

(* Such a step keeps the stack in order. *)
LEMMA StackPushed ==
  ASSUME StackOK, stack # << >>, UNCHANGED design, NEW g, NEW f, Pushed(g, f), stack' # << >>, Top' = f,
         FrameOK(g), g.of = Top.of, FrameOK(f), f.stage # "body", Waits(g, f),
         Len(items') = 1
  PROVE  StackOK'
<1>1. PICK l \in Nat \ {0} : l = Len(stack)
  BY TopFacts
<1>2. /\ stack' \in Seq(Elements(stack')) /\ Len(stack') = l + 1
      /\ stack'[l] = g /\ stack'[l + 1] = f /\ \A i \in 1 .. l - 1 : stack'[i] = stack[i]
  BY <1>1 DEF Pushed
<1>3. /\ \A i \in 1 .. l : FrameOK(stack[i])
      /\ \A i \in 1 .. l - 1 : Waits(stack[i], stack[i + 1])
  BY <1>1 DEF StackOK
<1>4. ASSUME NEW i \in 1 .. l + 1 PROVE FrameOK(stack'[i])
  BY <1>1, <1>2, <1>3
<1>5. ASSUME NEW i \in 1 .. l PROVE Waits(stack'[i], stack'[i + 1])
  <2>1. CASE i + 1 \in 1 .. l - 1
    BY <1>2, <1>3, <2>1
  <2>2. CASE i + 1 = l
    <3>1. stack'[i] = stack[i] /\ stack'[i + 1] = g
      BY <1>2, <2>2
    <3>2. Waits(stack[i], stack[i + 1]) /\ stack[i + 1] = Top
      BY <1>1, <1>3, <2>2, TopFacts
    <3>3. Waits(stack[i], g)
      BY <3>2 DEF Waits
    <3> QED BY <3>1, <3>3
  <2>3. CASE i = l
    BY <1>2, <2>3
  <2> QED BY <1>1, <2>1, <2>2, <2>3
<1>6. Len(items') = IF InBody' THEN 2 ELSE 1
  BY DEF InBody
<1>7. (\A i \in 1 .. l + 1 : FrameOK(stack[i])')
  BY <1>4, Static
<1>8. (\A i \in 1 .. l : Waits(stack[i], stack[i + 1])')
  BY <1>5, Static
<1>9. design' \in Designs
  BY DEF StackOK
<1>10. Len(stack') - 1 = l
  BY <1>2
<1> QED
  BY <1>2, <1>6, <1>7, <1>8, <1>9, <1>10 DEF StackOK

(* The top is taken away. *)
Popped ==
  /\ stack' \in Seq(Elements(stack')) /\ Len(stack') = Len(stack) - 1
  /\ \A i \in 1 .. Len(stack) - 1 : stack'[i] = stack[i]
  /\ (stack' = << >>) <=> (Len(stack) = 1)
  /\ stack' # << >> => Top' = stack[Len(stack) - 1]

(* A step that removes the frame on top. *)
LEMMA PopFacts ==
  ASSUME StackOK, stack # << >>, stack' = Front(stack)
  PROVE  Popped
<1>1. PICK s, r : s = stack /\ r = Append(Front(s), 0)
  OBVIOUS
<1>0. s \in Seq(Elements(s)) /\ s # << >>
  BY <1>1 DEF StackOK
<1>2. Shorter(s, Front(s)) /\ Swap(s, 0, r)
  BY <1>0, <1>1, SequenceFacts, Zenon
<1>3. PICK l \in Nat \ {0} : l = Len(s)
  BY <1>2, Zenon DEF Swap
<1>4. PICK t : t = Front(s)
  OBVIOUS
<1>5. t \in Seq(Elements(s)) /\ Len(t) = l - 1 /\ \A i \in 1 .. l - 1 : t[i] = s[i]
  BY <1>2, <1>3, <1>4, Zenon DEF Shorter
<1>6. t \in Seq(Elements(t)) /\ (t = << >> <=> l = 1)
  BY <1>3, <1>5, OwnElements
<1>7. t # << >> => t[Len(t)] = s[l - 1]
  BY <1>3, <1>5, <1>6
<1>8. stack' = t /\ stack = s /\ Len(stack) = l
  BY <1>1, <1>3, <1>4
<1>9. Top' = t[Len(t)]
  BY <1>8 DEF Top, Last
<1> QED
  BY <1>5, <1>6, <1>7, <1>8, <1>9, Zenon DEF Popped

(* Such a step keeps the stack in order. *)
LEMMA StackPopped ==
  ASSUME StackOK, stack # << >>, UNCHANGED design, Popped, Len(items') = 1
  PROVE  StackOK'
<1>1. PICK l \in Nat \ {0} : l = Len(stack)
  BY TopFacts
<1>2. /\ stack' \in Seq(Elements(stack')) /\ Len(stack') = l - 1
      /\ \A i \in 1 .. l - 1 : stack'[i] = stack[i]
      /\ (stack' = << >>) <=> (l = 1)
      /\ stack' # << >> => Top' = stack[l - 1]
  BY <1>1 DEF Popped
<1>3. /\ \A i \in 1 .. l : FrameOK(stack[i])
      /\ \A i \in 1 .. l - 1 : Waits(stack[i], stack[i + 1])
  BY <1>1 DEF StackOK
<1>4. ASSUME NEW i \in 1 .. l - 1 PROVE FrameOK(stack'[i])
  BY <1>1, <1>2, <1>3
<1>5. ASSUME NEW i \in 1 .. l - 2 PROVE Waits(stack'[i], stack'[i + 1])
  <2>1. i \in 1 .. l - 1 /\ i + 1 \in 1 .. l - 1
    BY <1>1
  <2> QED BY <1>2, <1>3, <2>1
<1>6. ~ InBody'
  <2> SUFFICES ASSUME stack' # << >>, Top'.stage = "body" PROVE FALSE
    BY DEF InBody
  <2>1. l - 1 \in 1 .. l - 1 /\ Top' = stack[l - 1]
    BY <1>1, <1>2
  <2>2. Waits(stack[l - 1], stack[l - 1 + 1])
    BY <1>3, <2>1
  <2> QED BY <2>1, <2>2 DEF Waits
<1>7. (\A i \in 1 .. l - 1 : FrameOK(stack[i])')
  BY <1>4, Static
<1>8. (\A i \in 1 .. l - 2 : Waits(stack[i], stack[i + 1])')
  BY <1>5, Static
<1>9. design' \in Designs
  BY DEF StackOK
<1>10. Len(stack') - 1 = l - 2
  BY <1>1, <1>2
<1> QED
  BY <1>2, <1>6, <1>7, <1>8, <1>9, <1>10 DEF StackOK

(* A component is of a netlist there is. *)
LEMMA ComponentFacts ==
  ASSUME design \in Designs, NEW n \in DOMAIN design.netlists, NEW c,
         \/ c \in Elements(Netlist(n).comps)
         \/ \E k \in 1 .. Len(SortedComponents(n)) : c = SortedComponents(n)[k]
  PROVE  c \in Elements(Netlist(n).comps) /\ c.of \in DOMAIN design.netlists /\ Netlist(c.of).name \in Suggestions
<1>1. c \in Elements(Netlist(n).comps)
  <2>1. SortedComponents(n) \in Seq(Elements(Netlist(n).comps))
    BY BodyFacts
  <2>2. PICK s : s = SortedComponents(n)
    OBVIOUS
  <2>3. s \in Seq(Elements(Netlist(n).comps))
    BY <2>1, <2>2
  <2>4. \A k \in 1 .. Len(s) : s[k] \in Elements(Netlist(n).comps)
    BY <2>3
  <2> QED BY <2>2, <2>4
<1>2. PICK i \in DOMAIN Netlist(n).comps : c = Netlist(n).comps[i]
  BY <1>1 DEF Elements
<1>3. c.of \in DOMAIN design.netlists
  BY <1>2, DesignFacts
<1>4. Netlist(c.of).name \in Suggestions
  BY <1>3, DesignFacts
<1> QED
  BY <1>1, <1>3, <1>4

(* What a part of a body is, by its kind. *)
LEMMA PartOf ==
  ASSUME design \in Designs, NEW n \in DOMAIN design.netlists, NEW q \in 1 .. Len(Body(n))
  PROVE  /\ Body(n)[q].of.id \in Objects \ DOMAIN design.netlists
         /\ Body(n)[q].k \in {"port", "net", "instance"}
         /\ Body(n)[q].k # "instance" => Body(n)[q].of.name \in Suggestions
         /\ Body(n)[q].k = "instance" =>
              /\ \E k \in 1 .. Len(SortedComponents(n)) : Body(n)[q].of = SortedComponents(n)[k]
              /\ Body(n)[q].of \in Elements(Netlist(n).comps) /\ Body(n)[q].of.of \in DOMAIN design.netlists
              /\ Netlist(Body(n)[q].of.of).name \in Suggestions
<1>1. Body(n)[q].of.id \in Objects \ DOMAIN design.netlists
  BY BodyIds
<1>2. /\ Declarations(n) \in Nat /\ Len(Body(n)) = Declarations(n) + Len(SortedComponents(n))
      /\ \A i \in 1 .. Declarations(n) : Body(n)[i].k \in {"port", "net"} /\ Body(n)[i].of.name \in Suggestions
      /\ \A i \in 1 .. Len(SortedComponents(n)) :
              /\ Body(n)[Declarations(n) + i].k = "instance"
              /\ Body(n)[Declarations(n) + i].of = SortedComponents(n)[i]
  BY BodyFacts
<1>3. PICK d, l : d = Declarations(n) /\ l = Len(SortedComponents(n))
  OBVIOUS
<1>l. l \in Nat
  <2>1. SortedComponents(n) \in Seq(Elements(Netlist(n).comps))
    BY BodyFacts
  <2> QED BY <1>3, <2>1, OwnElements
<1>4. q \in 1 .. d + l /\ d \in Nat
  BY <1>2, <1>3, Zenon
<1>5. CASE q \in 1 .. d
  <2>1. Body(n)[q].k \in {"port", "net"} /\ Body(n)[q].of.name \in Suggestions
    BY <1>2, <1>3, <1>5, Zenon
  <2> QED BY <1>1, <2>1
<1>6. CASE q \notin 1 .. d
  <2>1. PICK k \in 1 .. l : q = d + k
    <3>1. q - d \in 1 .. l /\ q = d + (q - d)
      BY <1>4, <1>6, <1>l
    <3> QED BY <3>1
  <2>2. Body(n)[q].k = "instance" /\ Body(n)[q].of = SortedComponents(n)[k]
    BY <1>2, <1>3, <2>1, Zenon
  <2>3. /\ Body(n)[q].of \in Elements(Netlist(n).comps) /\ Body(n)[q].of.of \in DOMAIN design.netlists
        /\ Netlist(Body(n)[q].of.of).name \in Suggestions
    BY <1>3, <2>1, <2>2, ComponentFacts
  <2> QED BY <1>1, <1>3, <2>1, <2>2, <2>3
<1> QED
  BY <1>5, <1>6

(* The part of the body that is next. *)
LEMMA NextPart ==
  ASSUME StackOK, stack # << >>, Top.stage = "body", Top.todo # << >>
  PROVE  /\ Taken(Top) \in Nat /\ Taken(Top) + 1 \in 1 .. Len(Body(Top.of))
         /\ Head(Top.todo) = Body(Top.of)[Taken(Top) + 1]
         /\ FrameOK([Top EXCEPT !.todo = Tail(@)])
         /\ [Top EXCEPT !.todo = Tail(@)].of = Top.of
         /\ [Top EXCEPT !.todo = Tail(@)].stage = "body"
         /\ Taken([Top EXCEPT !.todo = Tail(@)]) = Taken(Top) + 1
<1>1. PICK t, g : t = Top /\ g = [t EXCEPT !.todo = Tail(@)]
  OBVIOUS
<1>2. FrameOK(t) /\ design \in Designs /\ t.stage = "body" /\ t.todo # << >>
  BY <1>1, TopFacts
<1>3. /\ FrameOK(g) /\ g.of = t.of /\ g.stage = t.stage
      /\ Taken(g) = Taken(t) + 1 /\ Taken(g) \in 1 .. Len(All(t)) /\ Taken(t) \in Nat
      /\ Head(t.todo) = All(t)[Taken(g)]
  BY <1>1, <1>2, TailOK
<1>4. All(t) = Body(t.of)
  BY <1>2 DEF All
<1> QED
  BY <1>1, <1>2, <1>3, <1>4, Zenon

(* Lines are added at the end. *)
Adds(w) ==
  /\ written' \in Seq(Elements(written')) /\ Len(written') = Len(written) + 1
  /\ written'[Len(written) + 1] = w /\ \A i \in 1 .. Len(written) : written'[i] = written[i]

(* Write adds a line at the end. *)
LEMMA WriteFacts ==
  ASSUME WrittenOK, NEW w, written' = Append(written, w)
  PROVE  Adds(w) /\ WrittenOK'
<1>1. PICK s : s = written
  OBVIOUS
<1>2. s \in Seq(Elements(s) \cup {w}) /\ w \in Elements(s) \cup {w}
  BY <1>1 DEF WrittenOK
<1>3. PICK X : X = Elements(s) \cup {w}
  OBVIOUS
<1>4. s \in Seq(X) /\ w \in X
  BY <1>2, <1>3
<1>5. PICK r : r = Append(s, w)
  OBVIOUS
<1>6. r \in Seq(X) /\ Len(r) = Len(s) + 1 /\ r[Len(s) + 1] = w /\ \A i \in 1 .. Len(s) : r[i] = s[i]
  BY <1>4, <1>5
<1>7. r \in Seq(Elements(r))
  BY <1>6, OwnElements
<1>8. written' = r
  BY <1>1, <1>5
<1> QED
  BY <1>1, <1>6, <1>7, <1>8 DEF Adds, WrittenOK

Longer == written' = written \/ \E w : Adds(w)

(* Lines stay where they are. *)
LEMMA WrittenGrows ==
  ASSUME WrittenOK, Longer
  PROVE  /\ Len(written) \in Nat /\ Len(written') \in Nat /\ Len(written') >= Len(written)
         /\ \A i \in 1 .. Len(written) : written'[i] = written[i]
         /\ \A k : Written(k) = {i \in 1 .. Len(written) : written[i].k = k}
         /\ \A k : Written(k)' = {i \in 1 .. Len(written') : written'[i].k = k}
         /\ \A k : Written(k) \subseteq Written(k)'
<1>1. Len(written) \in Nat /\ DOMAIN written = 1 .. Len(written)
  BY OwnElements DEF WrittenOK
<1>2. WrittenOK'
  BY DEF Longer, Adds, WrittenOK
<1>3. Len(written') \in Nat /\ DOMAIN written' = 1 .. Len(written')
  <2>1. PICK s : s = written'
    OBVIOUS
  <2>2. s \in Seq(Elements(s))
    BY <1>2, <2>1 DEF WrittenOK
  <2> QED BY <2>1, <2>2, OwnElements
<1>4. Len(written') >= Len(written) /\ \A i \in 1 .. Len(written) : written'[i] = written[i]
  <2>1. CASE written' = written
    BY <1>1, <2>1
  <2>2. ASSUME NEW w, Adds(w)
        PROVE  Len(written') >= Len(written) /\ \A i \in 1 .. Len(written) : written'[i] = written[i]
    <3>1. Len(written') = Len(written) + 1 /\ \A i \in 1 .. Len(written) : written'[i] = written[i]
      BY <2>2, Zenon DEF Adds
    <3>2. Len(written') >= Len(written)
      BY <1>1, <3>1
    <3> QED BY <3>1, <3>2
  <2> QED BY <2>1, <2>2 DEF Longer
<1>5. \A k : Written(k) = {i \in 1 .. Len(written) : written[i].k = k}
  BY <1>1 DEF Written
<1>6. \A k : Written(k)' = {i \in 1 .. Len(written') : written'[i].k = k}
  BY <1>3 DEF Written
<1>7. \A k : Written(k) \subseteq Written(k)'
  <2> SUFFICES ASSUME NEW k, NEW i \in Written(k) PROVE i \in Written(k)'
    OBVIOUS
  <2>1. i \in 1 .. Len(written) /\ written[i].k = k
    BY <1>5
  <2>2. i \in 1 .. Len(written') /\ written'[i].k = k
    BY <1>1, <1>3, <1>4, <2>1
  <2> QED BY <1>6, <2>2
<1> QED
  BY <1>1, <1>3, <1>4, <1>5, <1>6, <1>7

(* What is settled remains settled. *)
LEMMA SettledStays ==
  ASSUME WrittenOK, Longer, DOMAIN all_names \subseteq DOMAIN all_names', NEW n, Settled(n)
  PROVE  Settled(n)'
<1>1. PICK j \in Written("endmodule") : written[j].of = n
  BY DEF Settled
<1>2. j \in Written("endmodule")' /\ j \in 1 .. Len(written)
  BY <1>1, WrittenGrows
<1>3. written'[j].of = n
  BY <1>1, <1>2, WrittenGrows
<1> QED
  BY <1>2, <1>3 DEF Settled

(* Naming an object in its level keeps Levels. *)
LEMMA LevelsStep ==
  ASSUME Levels, UNCHANGED design, NEW obj, NEW n, NEW l,
         Keeps(obj) \/ Throws(obj) \/ Gets(obj, n, l),
         IF obj \in DOMAIN design.netlists THEN l = 1 /\ n = Netlist(obj).name ELSE l # 1
  PROVE  Levels' /\ DOMAIN all_names \subseteq DOMAIN all_names'
<1>0. \A o : Netlist(o)' = Netlist(o)
  BY Static
<1>1. CASE Keeps(obj)
  BY <1>0, <1>1 DEF Keeps, Levels, nameVars
<1>2. CASE Throws(obj)
  BY <1>0, <1>2 DEF Throws, Levels
<1>3. CASE Gets(obj, n, l)
  <2>1. ASSUME NEW o \in DOMAIN all_names'
        PROVE  IF o \in DOMAIN design.netlists THEN home'[o] = 1 /\ asked'[o] = Netlist(o).name ELSE home'[o] # 1
    <3>1. CASE o \in DOMAIN all_names
      BY <1>3, <3>1 DEF Gets, Levels
    <3>2. CASE o = obj
      BY <1>3, <3>2 DEF Gets
    <3> QED BY <1>3, <2>1, <3>1, <3>2 DEF Gets
  <2> QED BY <1>0, <1>3, <2>1 DEF Levels, Gets
<1> QED
  BY <1>1, <1>2, <1>3

(* A frame's dependencies stay written. *)
LEMMA ServedStays ==
  ASSUME WrittenOK, Longer, DOMAIN all_names \subseteq DOMAIN all_names', UNCHANGED design,
         NEW f, NEW b, Served(f, b), NEW g, NEW c, g.of = f.of, Delivered(g, c) = Delivered(f, b)
  PROVE  Served(g, c)'
<1>1. Delivered(g, c)' = Delivered(f, b)
  BY Static
<1>2. \A n : SortedComponents(n)' = SortedComponents(n)
  BY Static
<1>3. \A n : Settled(n) => Settled(n)'
  BY SettledStays
<1> SUFFICES ASSUME NEW k \in 1 .. Delivered(f, b)
             PROVE  Settled(SortedComponents(g.of)[k].of)'
  BY <1>1 DEF Served
<1>4. Settled(SortedComponents(f.of)[k].of)
  BY DEF Served
<1>5. PICK n : n = SortedComponents(f.of)[k].of
  OBVIOUS
<1>6. Settled(n)'
  BY <1>3, <1>4, <1>5
<1>7. (SortedComponents(g.of)[k].of)' = n
  BY <1>2, <1>5
<1> QED
  BY <1>6, <1>7

(* The steps by which the top changes and what it is done with does not. *)
LEMMA ServedSwapped ==
  ASSUME StackOK, WrittenOK, DependenciesFirst, stack # << >>, UNCHANGED design, Longer,
         DOMAIN all_names \subseteq DOMAIN all_names', NEW f, Swapped(f), Top' = f, f.of = Top.of,
         Delivered(f, TRUE) = Delivered(Top, TRUE),
         f.stage # "dependencies" => f.of \in DOMAIN all_names'
  PROVE  DependenciesFirst'
<1>1. PICK l \in Nat \ {0} : l = Len(stack)
  BY TopFacts
<1>2. Len(stack') = l /\ stack'[l] = f /\ \A i \in 1 .. l - 1 : stack'[i] = stack[i]
  BY <1>1 DEF Swapped
<1>3. ASSUME NEW i \in 1 .. l - 1 PROVE Served(stack[i], FALSE)'
  <2>1. PICK g : g = stack[i]
    OBVIOUS
  <2>2. Served(g, FALSE)
    BY <1>1, <2>1 DEF DependenciesFirst
  <2>3. Served(g, FALSE)'
    BY <2>2, ServedStays
  <2> QED BY <1>2, <2>1, <2>3
<1>4. Served(Top, TRUE)'
  <2>1. PICK t : t = Top
    OBVIOUS
  <2>2. Served(t, TRUE)
    BY <2>1 DEF DependenciesFirst
  <2>3. Served(f, TRUE)'
    BY <2>1, <2>2, ServedStays
  <2> QED BY <2>3
<1>5. Top'.stage # "dependencies" => Top'.of \in DOMAIN all_names'
  OBVIOUS
<1> QED
  BY <1>2, <1>3, <1>4, <1>5 DEF DependenciesFirst
-----------------------------------------------------------------------------
(* Struct is kept by every action. *)

(* A step that gives no name. *)
LEMMA NamesUnchanged ==
  ASSUME IInv, Levels, UNCHANGED <<nameVars, design>>
  PROVE  IInv' /\ Levels' /\ all_names' = all_names /\ items' = items /\ occupied' = occupied
<1>1. UNCHANGED vars
  BY DEF vars, nameVars
<1>2. \A o : Netlist(o)' = Netlist(o)
  BY Static
<1>3. all_names' = all_names /\ home' = home /\ asked' = asked /\ items' = items /\ occupied' = occupied
  BY DEF nameVars
<1> QED
  BY <1>1, <1>2, <1>3, UnchangedStep DEF Levels

(* serialize_dependency keeps Struct, and pushes a frame for the next      *)
(* component.                                                              *)
LEMMA DependencyStep ==
  ASSUME Struct, serialize_dependency
  PROVE  /\ Struct'
         /\ \E g, f : /\ Pushed(g, f) /\ Top' = f /\ stack' # << >> /\ f.stage = "dependencies" /\ g.of = Top.of
                      /\ f.of \in DOMAIN design.netlists /\ g.stage = "dependencies" /\ Top.stage = "dependencies"
                      /\ Taken(g) = Taken(Top) + 1 /\ Taken(f) = 0 /\ Taken(Top) \in Nat
                      /\ stack # << >>
<1> USE DEF Struct
<1>1. /\ stack # << >> /\ Top.stage = "dependencies" /\ Top.todo # << >> /\ occupied = NoError
      /\ UNCHANGED <<nameVars, design, written>>
      /\ stack' = Append(Append(Front(stack), [Top EXCEPT !.todo = Tail(@)]), Frame(Head(Top.todo).of))
  BY DEF serialize_dependency, Running
<1>2. IInv' /\ Levels' /\ all_names' = all_names /\ items' = items
  BY <1>1, NamesUnchanged
<1>3. PICK t, g, f : t = Top /\ g = [t EXCEPT !.todo = Tail(@)] /\ f = Frame(Head(t.todo).of)
  OBVIOUS
<1>4. FrameOK(t) /\ design \in Designs /\ t.of \in DOMAIN design.netlists
  BY <1>1, <1>3, TopFacts
<1>5. /\ FrameOK(g) /\ g.of = t.of /\ g.stage = t.stage /\ All(g) = All(t)
      /\ Taken(g) = Taken(t) + 1 /\ Taken(g) \in 1 .. Len(All(t)) /\ Taken(t) \in Nat
      /\ Head(t.todo) = All(t)[Taken(g)]
  BY <1>1, <1>3, <1>4, TailOK
<1>6. All(t) = SortedComponents(t.of)
  BY <1>1, <1>3 DEF All
<1>7. PICK n : n = Head(t.todo).of
  OBVIOUS
<1>8. n \in DOMAIN design.netlists /\ SortedComponents(t.of)[Taken(g)].of = n
  BY <1>4, <1>5, <1>6, <1>7, ComponentFacts
<1>9. f = [of |-> n, stage |-> "dependencies", todo |-> SortedComponents(n)]
  BY <1>3, <1>7 DEF Frame, dependencies
<1>10. FrameOK(f) /\ f.of = n /\ Taken(f) = 0 /\ f.stage = "dependencies"
  BY <1>4, <1>8, <1>9, WholeFrame
<1>11. Waits(g, f)
  BY <1>1, <1>3, <1>5, <1>8, <1>10 DEF Waits
<1>12. Pushed(g, f) /\ stack' # << >> /\ Top' = f
  <2>1. stack' = Append(Append(Front(stack), g), f)
    BY <1>1, <1>3, Zenon
  <2> QED BY <1>1, <2>1, PushFacts
<1>13. Len(items') = 1
  BY <1>1, <1>2 DEF StackOK, InBody
<1>14. StackOK'
  <2>1. f.stage # "body" /\ g.of = Top.of
    BY <1>3, <1>5, <1>10
  <2> QED BY <1>1, <1>5, <1>10, <1>11, <1>12, <1>13, <2>1, StackPushed
<1>15. WrittenOK'
  BY <1>1 DEF WrittenOK
<1>16. DependenciesFirst'
  <2>1. PICK l \in Nat \ {0} : l = Len(stack)
    BY <1>1, TopFacts
  <2>2. /\ Len(stack') = l + 1 /\ stack'[l] = g
        /\ \A i \in 1 .. l - 1 : stack'[i] = stack[i]
    BY <1>12, <2>1 DEF Pushed
  <2>a. Longer /\ DOMAIN all_names \subseteq DOMAIN all_names'
    BY <1>1, <1>2 DEF Longer
  <2>3. ASSUME NEW i \in 1 .. l PROVE Served(stack[i], FALSE)'
    <3>1. CASE i = l
      <4>1. Served(t, TRUE)
        BY <1>1, <1>3 DEF DependenciesFirst
      <4>2. Delivered(g, FALSE) = Delivered(t, TRUE)
        BY <1>1, <1>3, <1>5 DEF Delivered
      <4>3. Served(g, FALSE)'
        BY <1>1, <1>5, <2>a, <4>1, <4>2, ServedStays
      <4> QED BY <2>2, <3>1, <4>3
    <3>2. CASE i # l
      <4>0. i \in 1 .. l - 1
        BY <2>1, <3>2
      <4>1. PICK h : h = stack[i]
        OBVIOUS
      <4>2. Served(h, FALSE)
        BY <2>1, <4>0, <4>1 DEF DependenciesFirst
      <4>3. Served(h, FALSE)'
        BY <1>1, <2>a, <4>2, ServedStays
      <4> QED BY <2>2, <4>0, <4>1, <4>3
    <3> QED BY <3>1, <3>2
  <2>4. Served(f, TRUE)
    BY <1>10 DEF Served, Delivered
  <2>5. Served(f, TRUE)'
    BY <1>1, <2>a, <2>4, ServedStays
  <2>6. Served(Top, TRUE)' /\ Top'.stage = "dependencies"
    BY <1>10, <1>12, <2>5
  <2>7. Len(stack') - 1 = l
    BY <2>2
  <2> QED BY <2>3, <2>6, <2>7 DEF DependenciesFirst
<1>17. Struct'
  BY <1>2, <1>14, <1>15, <1>16
<1> QED
  BY <1>1, <1>3, <1>5, <1>8, <1>10, <1>12, <1>17

(* name_module keeps Struct, and names the netlist of the frame on top in  *)
(* the global level or throws.                                             *)
LEMMA NameModuleStep ==
  ASSUME Struct, name_module
  PROVE  /\ Struct'
         /\ stack # << >> /\ Top.stage = "dependencies" /\ Top.of \in DOMAIN design.netlists
         /\ Taken(Top) = Len(SortedComponents(Top.of))
         /\ Keeps(Top.of) \/ Throws(Top.of) \/ Gets(Top.of, Netlist(Top.of).name, 1)
         /\ \/ occupied' # NoError /\ stack' = stack /\ ~ Keeps(Top.of)
            \/ /\ occupied' = NoError /\ Swapped([Top EXCEPT !.stage = "head"]) /\ stack' # << >>
               /\ Top' = [Top EXCEPT !.stage = "head"] /\ Top'.of = Top.of /\ Top'.stage = "head"
         /\ DOMAIN all_names \subseteq DOMAIN all_names'
<1> USE DEF Struct
<1>1. /\ stack # << >> /\ Top.stage = "dependencies" /\ Top.todo = << >> /\ occupied = NoError
      /\ NamedAs(Netlist(Top.of).name, Top.of, TRUE)
      /\ UNCHANGED <<design, written>>
  BY DEF name_module, Running
<1>2. PICK t, f : t = Top /\ f = [t EXCEPT !.stage = "head"]
  OBVIOUS
<1>3. /\ FrameOK(t) /\ design \in Designs /\ t.of \in DOMAIN design.netlists
      /\ t.of \in Objects /\ Netlist(t.of).name \in Suggestions
  BY <1>1, <1>2, TopFacts
<1>4. IInv' /\ (Keeps(t.of) \/ Throws(t.of) \/ Gets(t.of, Netlist(t.of).name, 1))
  <2>1. NamedAs(Netlist(t.of).name, t.of, TRUE)
    BY <1>1, <1>2
  <2> QED BY <1>1, <1>3, <2>1, NamedAsFacts
<1>5. Levels' /\ DOMAIN all_names \subseteq DOMAIN all_names'
  BY <1>1, <1>3, <1>4, LevelsStep
<1>6. FrameOK(f) /\ f.of = t.of /\ f.stage = "head" /\ Taken(t) = Len(SortedComponents(t.of))
  BY <1>1, <1>2, <1>3, HeadFrame
<1>7. Len(items) = 1 /\ Len(items') = 1
  <2>1. Len(items) = 1
    BY <1>1 DEF StackOK, InBody
  <2> QED BY <1>4, <2>1 DEF Keeps, Throws, Gets, nameVars
<1>8. WrittenOK' /\ Longer
  BY <1>1 DEF WrittenOK, Longer
<1>9. CASE occupied' # NoError
  <2>1. stack' = stack
    BY <1>9 DEF name_module
  <2>2. \A o : Netlist(o)' = Netlist(o)
    BY <1>1, Static
  <2>3. Throws(t.of) /\ ~ Keeps(t.of)
    BY <1>1, <1>4, <1>9 DEF Keeps, Gets, nameVars
  <2>4. StackOK'
    <3>1. PICK s : s = stack
      OBVIOUS
    <3>2. /\ s \in Seq(Elements(s))
          /\ \A i \in 1 .. Len(s) : FrameOK(s[i])
          /\ \A i \in 1 .. Len(s) - 1 : Waits(s[i], s[i + 1])
      BY <3>1 DEF StackOK
    <3>3. (\A i \in 1 .. Len(s) : FrameOK(s[i])') /\ (\A i \in 1 .. Len(s) - 1 : Waits(s[i], s[i + 1])')
      BY <1>1, <3>2, Static
    <3>4. stack' = s
      BY <2>1, <3>1
    <3>5. InBody' = FALSE /\ design' \in Designs
      BY <1>1, <1>3, <2>1 DEF InBody, Top
    <3> QED BY <1>7, <3>2, <3>3, <3>4, <3>5 DEF StackOK
  <2>5. DependenciesFirst'
    <3>1. PICK s : s = stack
      OBVIOUS
    <3>2. (\A i \in 1 .. Len(s) - 1 : Served(s[i], FALSE)) /\ Served(t, TRUE)
      BY <1>1, <1>2, <3>1 DEF DependenciesFirst
    <3>3. (\A i \in 1 .. Len(s) - 1 : Served(s[i], FALSE)') /\ Served(t, TRUE)'
      BY <1>1, <1>5, <1>8, <3>2, ServedStays
    <3>4. stack' = s /\ Top' = t
      BY <1>2, <2>1, <3>1 DEF Top
    <3>5. Top'.stage = "dependencies"
      BY <1>1, <1>2, <3>4
    <3> QED BY <3>3, <3>4, <3>5 DEF DependenciesFirst
  <2>6. Struct'
    BY <1>4, <1>5, <1>8, <2>4, <2>5
  <2> QED BY <1>1, <1>2, <1>3, <1>4, <1>5, <1>6, <1>9, <2>1, <2>3, <2>6
<1>10. CASE occupied' = NoError
  <2>1. stack' = Append(Front(stack), f)
    BY <1>2, <1>10 DEF name_module, Put
  <2>2. Swapped(f) /\ stack' # << >> /\ Top' = f
    BY <1>1, <2>1, PutFacts DEF StackOK
  <2>3. StackOK'
    BY <1>1, <1>2, <1>6, <1>7, <2>2, StackSwapped
  <2>4. f.of \in DOMAIN all_names'
    BY <1>4, <1>6, <1>10 DEF Keeps, Throws, Gets, nameVars
  <2>5. Delivered(f, TRUE) = Delivered(t, TRUE)
    <3>1. Delivered(f, TRUE) = Len(SortedComponents(t.of))
      BY <1>6 DEF Delivered
    <3>2. Delivered(t, TRUE) = Len(SortedComponents(t.of)) - 0
      BY <1>1, <1>2, <1>6 DEF Delivered
    <3>3. Len(SortedComponents(t.of)) \in Nat
      BY <1>3, AllIsSeq, OwnElements
    <3>4. PICK m \in Nat : m = Len(SortedComponents(t.of))
      BY <3>3
    <3>5. Delivered(t, TRUE) = m - 0 /\ Delivered(f, TRUE) = m
      BY <3>1, <3>2, <3>4, Zenon
    <3>6. m - 0 = m
      OBVIOUS
    <3> QED BY <3>5, <3>6, Zenon
  <2>6. DependenciesFirst'
    BY <1>1, <1>2, <1>5, <1>6, <1>8, <2>2, <2>4, <2>5, ServedSwapped
  <2>7. Struct'
    BY <1>4, <1>5, <1>8, <2>3, <2>6
  <2> QED BY <1>1, <1>2, <1>3, <1>4, <1>5, <1>6, <1>10, <2>2, <2>7
<1> QED
  BY <1>9, <1>10

(* The frame on top is changed, and lines are added. *)
LEMMA StructSwapped ==
  ASSUME Struct, stack # << >>, UNCHANGED design, IInv', Levels', WrittenOK', Longer,
         DOMAIN all_names \subseteq DOMAIN all_names',
         NEW f, Swapped(f), Top' = f, stack' # << >>, FrameOK(f), f.of = Top.of, f.stage = "body", Top.stage # "dependencies",
         Len(items') = 2
  PROVE  Struct'
<1> USE DEF Struct
<1>1. StackOK'
  BY StackSwapped
<1>2. Delivered(f, TRUE) = Delivered(Top, TRUE)
  BY DEF Delivered
<1>3. f.of \in DOMAIN all_names'
  BY DEF DependenciesFirst
<1>4. DependenciesFirst'
  BY <1>2, <1>3, ServedSwapped
<1> QED
  BY <1>1, <1>4

(* serialize_module_head keeps Struct, and writes the head of a netlist    *)
(* that has its name.                                                      *)
LEMMA HeadStep ==
  ASSUME Struct, serialize_module_head
  PROVE  /\ Struct'
         /\ stack # << >> /\ Top.stage = "head" /\ ~ InBody /\ occupied = NoError
         /\ UNCHANGED <<design, all_names, occupied, home, asked>> /\ Len(items) = 1 /\ level_push
         /\ Adds(Item("module", Top.of, Top.of, all_names[Top.of], << >>))
         /\ Top.of \in DOMAIN all_names /\ Top.of \in DOMAIN design.netlists
         /\ \E f : /\ Swapped(f) /\ stack' # << >> /\ Top' = f /\ f.of = Top.of /\ f.stage = "body"
                   /\ Taken(f) = 0
<1> USE DEF Struct
<1>1. /\ stack # << >> /\ Top.stage = "head" /\ occupied = NoError /\ level_push
      /\ written' = Append(written, Item("module", Top.of, Top.of, all_names[Top.of], << >>))
      /\ stack' = Append(Front(stack), [Top EXCEPT !.stage = "body", !.todo = Body(Top.of)])
      /\ UNCHANGED design
  BY DEF serialize_module_head, Running, Write, Put
<1>2. IInv' /\ UNCHANGED <<all_names, occupied, home, asked>>
  BY <1>1, LevelPushStep DEF level_push
<1>3. Levels'
  <2>1. \A o : Netlist(o)' = Netlist(o)
    BY <1>1, Static
  <2> QED BY <1>1, <1>2, <2>1 DEF Levels
<1>4. Adds(Item("module", Top.of, Top.of, all_names[Top.of], << >>)) /\ WrittenOK'
  BY <1>1, WriteFacts
<1>5. PICK t, f : t = Top /\ f = [t EXCEPT !.stage = "body", !.todo = Body(t.of)]
  OBVIOUS
<1>6. FrameOK(t) /\ design \in Designs /\ t.of \in DOMAIN design.netlists
  BY <1>1, <1>5, TopFacts
<1>7. FrameOK(f) /\ f.of = t.of /\ f.stage = "body" /\ Taken(f) = 0
  BY <1>5, <1>6, BodyFrame
<1>8. Swapped(f) /\ stack' # << >> /\ Top' = f
  <2>1. stack' = Append(Front(stack), f)
    BY <1>1, <1>5, Zenon
  <2> QED BY <1>1, <2>1, PutFacts DEF StackOK
<1>9. Len(items) = 1 /\ ~ InBody
  BY <1>1 DEF StackOK, InBody
<1>10. Len(items') = 2
  <2>1. PICK s : s = items
    OBVIOUS
  <2>2. s \in Seq(ItemMaps) /\ Len(s) = 1
    BY <1>9, <2>1 DEF IInv, LevelsType
  <2>3. items' = Append(s, << >>)
    BY <1>1, <2>1 DEF level_push
  <2>4. PICK X : X = ItemMaps \cup {<< >>}
    OBVIOUS
  <2>5. s \in Seq(X) /\ << >> \in X
    BY <2>2, <2>4
  <2>6. Len(Append(s, << >>)) = Len(s) + 1
    BY <2>5
  <2> QED BY <2>2, <2>3, <2>6
<1>11. Longer
  BY <1>4 DEF Longer
<1>12. Struct'
  BY <1>1, <1>2, <1>3, <1>4, <1>5, <1>7, <1>8, <1>10, <1>11, StructSwapped
<1>13. Top.of \in DOMAIN all_names
  BY <1>1 DEF DependenciesFirst
<1> QED
  BY <1>1, <1>2, <1>4, <1>5, <1>6, <1>7, <1>8, <1>9, <1>12, <1>13

(* The body of a module: a part is named, and written.                     *)
Fails == occupied' # NoError /\ UNCHANGED <<stack, written>>
Crash == failed' # failed /\ UNCHANGED <<stack, written>>
Goes ==
  \E f : /\ Swapped(f) /\ stack' # << >> /\ Top' = f /\ f.of = Top.of /\ f.stage = "body"
         /\ Taken(f) = Taken(Top) + 1

(* Nothing but names changed. *)
LEMMA StructStays ==
  ASSUME Struct, stack # << >>, InBody, UNCHANGED <<design, stack, written>>, IInv', Levels',
         DOMAIN all_names \subseteq DOMAIN all_names', Len(items') = 2
  PROVE  Struct'
<1> USE DEF Struct
<1>1. PICK s, t : s = stack /\ t = Top
  OBVIOUS
<1>2. StackOK'
  <2>2. /\ s \in Seq(Elements(s)) /\ design \in Designs
        /\ \A i \in 1 .. Len(s) : FrameOK(s[i])
        /\ \A i \in 1 .. Len(s) - 1 : Waits(s[i], s[i + 1])
    BY <1>1 DEF StackOK
  <2>3. (\A i \in 1 .. Len(s) : FrameOK(s[i])') /\ (\A i \in 1 .. Len(s) - 1 : Waits(s[i], s[i + 1])')
    BY <2>2, Static
  <2>4. stack' = s
    BY <1>1
  <2>5. InBody' = TRUE
    BY <1>1 DEF InBody, Top
  <2> QED BY <2>2, <2>3, <2>4, <2>5 DEF StackOK
<1>3. WrittenOK' /\ Longer
  BY DEF WrittenOK, Longer
<1>4. DependenciesFirst'
  <2>2. (\A i \in 1 .. Len(s) - 1 : Served(s[i], FALSE)) /\ Served(t, TRUE) /\ (t.stage # "dependencies" => t.of \in DOMAIN all_names)
    BY <1>1 DEF DependenciesFirst
  <2>3. (\A i \in 1 .. Len(s) - 1 : Served(s[i], FALSE)') /\ Served(t, TRUE)'
    BY <1>3, <2>2, ServedStays
  <2>4. stack' = s /\ Top' = t
    BY <1>1 DEF Top
  <2>5. Top'.stage # "dependencies" => Top'.of \in DOMAIN all_names'
    BY <2>2, <2>4
  <2> QED BY <2>3, <2>4, <2>5 DEF DependenciesFirst
<1> QED
  BY <1>2, <1>3, <1>4

(* What naming a part of the body does to the names. *)
LEMMA PartNamed ==
  ASSUME Struct, stack # << >>, Top.stage = "body", occupied = NoError, UNCHANGED design,
         NEW n \in Suggestions, NEW obj \in Objects \ DOMAIN design.netlists, NamedAs(n, obj, FALSE)
  PROVE  /\ InBody /\ Len(items) = 2 /\ Len(items') = 2
         /\ IInv' /\ Levels' /\ DOMAIN all_names \subseteq DOMAIN all_names'
         /\ Keeps(obj) \/ Throws(obj) \/ Gets(obj, n, 2)
<1> USE DEF Struct
<1>1. InBody /\ Len(items) = 2
  BY DEF InBody, StackOK
<1>2. IInv' /\ (Keeps(obj) \/ Throws(obj) \/ Gets(obj, n, Len(items)))
  BY NamedAsFacts
<1>3. Keeps(obj) \/ Throws(obj) \/ Gets(obj, n, 2)
  BY <1>1, <1>2
<1>4. Len(items') = 2
  BY <1>1, <1>3 DEF Keeps, Throws, Gets, nameVars
<1>5. Levels' /\ DOMAIN all_names \subseteq DOMAIN all_names'
  <2>1. IF obj \in DOMAIN design.netlists THEN 2 = 1 /\ n = Netlist(obj).name ELSE 2 # 1
    OBVIOUS
  <2> QED BY <1>3, <2>1, LevelsStep, Zenon
<1> QED
  BY <1>1, <1>2, <1>3, <1>4, <1>5

(* A body goes on to its next part. *)
LEMMA RestFacts ==
  ASSUME Struct, stack # << >>, Top.stage = "body", Top.todo # << >>, UNCHANGED design, Rest,
         IInv', Levels', DOMAIN all_names \subseteq DOMAIN all_names', WrittenOK', Longer, Len(items') = 2
  PROVE  Struct' /\ Goes
<1> USE DEF Struct
<1>1. PICK t, f : t = Top /\ f = [t EXCEPT !.todo = Tail(@)]
  OBVIOUS
<1>2. FrameOK(f) /\ f.of = t.of /\ f.stage = "body" /\ Taken(f) = Taken(t) + 1
  BY <1>1, NextPart
<1>3. stack' = Append(Front(stack), f)
  BY <1>1, Zenon DEF Rest, Put
<1>4. Swapped(f) /\ stack' # << >> /\ Top' = f
  BY <1>3, PutFacts DEF StackOK
<1>5. Struct'
  BY <1>1, <1>2, <1>4, StructSwapped
<1> QED
  BY <1>1, <1>2, <1>4, <1>5 DEF Goes

(* The part that is next, and what asks for its name. *)
NextOne == Body(Top.of)[Taken(Top) + 1]
AsksFor(p) == IF p.k = "instance" THEN Netlist(p.of.of).name ELSE p.of.name

InPart ==
  /\ stack # << >> /\ InBody /\ occupied = NoError /\ Top.of \in DOMAIN design.netlists
  /\ Taken(Top) \in Nat /\ Taken(Top) + 1 \in 1 .. Len(Body(Top.of))
  /\ Len(items) = 2

Named == \/ Keeps(NextOne.of.id) \/ Throws(NextOne.of.id)
         \/ Gets(NextOne.of.id, AsksFor(NextOne), 2)

(* The next part is the one that Body has at this place. *)
LEMMA NextOneFacts ==
  ASSUME Struct, stack # << >>, Top.stage = "body", Top.todo # << >>, occupied = NoError
  PROVE  /\ InPart /\ Head(Top.todo) = NextOne
         /\ NextOne.of.id \in Objects \ DOMAIN design.netlists /\ AsksFor(NextOne) \in Suggestions
         /\ NextOne.k \in {"port", "net", "instance"}
<1>1. /\ Taken(Top) \in Nat /\ Taken(Top) + 1 \in 1 .. Len(Body(Top.of))
      /\ Head(Top.todo) = Body(Top.of)[Taken(Top) + 1]
  BY NextPart DEF Struct
<1>2. Top.of \in DOMAIN design.netlists /\ design \in Designs
  BY TopFacts DEF Struct
<1>3. InBody /\ Len(items) = 2
  BY DEF InBody, Struct, StackOK
<1>4. InPart
  BY <1>1, <1>2, <1>3 DEF InPart
<1>5. PICK n, q : n = Top.of /\ q = Taken(Top) + 1
  OBVIOUS
<1>6. PICK p : p = Body(n)[q]
  OBVIOUS
<1>7. q \in 1 .. Len(Body(n)) /\ n \in DOMAIN design.netlists
  BY <1>1, <1>2, <1>5
<1>8. /\ p.of.id \in Objects \ DOMAIN design.netlists
      /\ p.k \in {"port", "net", "instance"}
      /\ p.k # "instance" => p.of.name \in Suggestions
      /\ p.k = "instance" => Netlist(p.of.of).name \in Suggestions
  BY <1>2, <1>6, <1>7, PartOf
<1>9. AsksFor(p) \in Suggestions
  BY <1>8 DEF AsksFor
<1>10. NextOne = p
  BY <1>5, <1>6 DEF NextOne
<1> QED
  BY <1>1, <1>4, <1>8, <1>9, <1>10 DEF NextOne

(* serialize_declaration keeps Struct; it names a port or a net in the     *)
(* level of the body and writes it, or throws.                             *)
LEMMA DeclarationStep ==
  ASSUME Struct, serialize_declaration
  PROVE  /\ Struct' /\ InPart /\ Named /\ UNCHANGED design /\ NextOne.k \in {"port", "net"}
         /\ NamedAs(AsksFor(NextOne), NextOne.of.id, FALSE)
         /\ Len(items') = 2 /\ DOMAIN all_names \subseteq DOMAIN all_names'
         /\ \/ Fails
            \/ /\ occupied' = NoError /\ Goes
               /\ Adds(Item(NextOne.k, Top.of, NextOne.of.id, all_names'[NextOne.of.id], << >>))
<1>1. /\ stack # << >> /\ Top.stage = "body" /\ Top.todo # << >> /\ occupied = NoError
      /\ Head(Top.todo).k \in {"port", "net"} /\ UNCHANGED design
  BY DEF serialize_declaration, Next_, Running
<1>2. /\ InPart /\ Head(Top.todo) = NextOne
      /\ NextOne.of.id \in Objects \ DOMAIN design.netlists /\ AsksFor(NextOne) \in Suggestions
  BY <1>1, NextOneFacts
<1>3. PICK p : p = NextOne
  OBVIOUS
<1>4. p.k \in {"port", "net"} /\ AsksFor(p) = p.of.name
  BY <1>1, <1>2, <1>3 DEF AsksFor
<1>5. /\ NamedAs(p.of.name, p.of.id, FALSE)
      /\ IF occupied' # NoError THEN UNCHANGED <<stack, written>>
         ELSE Rest /\ Write(Item(p.k, Top.of, p.of.id, all_names'[p.of.id], << >>))
  <2>1. Head(Top.todo) = p
    BY <1>2, <1>3
  <2>2. LET n == Head(Top.todo).of IN
        /\ NamedAs(n.name, n.id, FALSE)
        /\ IF occupied' # NoError THEN UNCHANGED <<stack, written>>
           ELSE Rest /\ Write(Item(Head(Top.todo).k, Top.of, n.id, all_names'[n.id], << >>))
    BY DEF serialize_declaration
  <2> QED BY <2>1, <2>2
<1>6. /\ InBody /\ Len(items) = 2 /\ Len(items') = 2
      /\ IInv' /\ Levels' /\ DOMAIN all_names \subseteq DOMAIN all_names'
      /\ Keeps(p.of.id) \/ Throws(p.of.id) \/ Gets(p.of.id, p.of.name, 2)
  <2>1. p.of.name \in Suggestions /\ p.of.id \in Objects \ DOMAIN design.netlists
    BY <1>2, <1>3, <1>4
  <2> QED BY <1>1, <1>5, <2>1, PartNamed
<1>7. Named
  BY <1>3, <1>4, <1>6 DEF Named
<1>n. NamedAs(AsksFor(NextOne), NextOne.of.id, FALSE)
  BY <1>3, <1>4, <1>5
<1>8. CASE occupied' # NoError
  <2>1. UNCHANGED <<stack, written>>
    BY <1>5, <1>8
  <2>2. Struct'
    BY <1>1, <1>6, <2>1, StructStays
  <2> QED BY <1>1, <1>2, <1>3, <1>4, <1>6, <1>7, <1>n, <1>8, <2>1, <2>2 DEF Fails
<1>9. CASE occupied' = NoError
  <2>1. Rest /\ written' = Append(written, Item(p.k, Top.of, p.of.id, all_names'[p.of.id], << >>))
    BY <1>5, <1>9 DEF Write
  <2>a. PICK w : w = Item(p.k, Top.of, p.of.id, all_names'[p.of.id], << >>)
    OBVIOUS
  <2>2. Adds(w) /\ WrittenOK'
    BY <2>1, <2>a, WriteFacts DEF Struct
  <2>3. Longer
    BY <2>2 DEF Longer
  <2>4. Struct' /\ Goes
    BY <1>1, <1>6, <2>1, <2>2, <2>3, RestFacts
  <2> QED BY <1>1, <1>2, <1>3, <1>4, <1>6, <1>7, <1>n, <1>9, <2>a, <2>2, <2>4
<1> QED
  BY <1>8, <1>9

(* serialize_component_instance keeps Struct; it names a component in the  *)
(* level of the body and writes it, throws, or crashes.                    *)
LEMMA InstanceStep ==
  ASSUME Struct, serialize_component_instance
  PROVE  /\ Struct' /\ InPart /\ Named /\ UNCHANGED design /\ NextOne.k = "instance"
         /\ NamedAs(AsksFor(NextOne), NextOne.of.id, FALSE)
         /\ Len(items') = 2 /\ DOMAIN all_names \subseteq DOMAIN all_names'
         /\ \/ Fails
            \/ Crash /\ occupied' = NoError
            \/ /\ occupied' = NoError /\ Goes
               /\ \E text : /\ DOMAIN text = DOMAIN NextOne.of.conn
                            /\ \A p \in DOMAIN text : text[p].port = all_names[p]
                            /\ Adds(Item("instance", NextOne.of.of, NextOne.of.id, all_names[NextOne.of.of], text))
<1>1. /\ stack # << >> /\ Top.stage = "body" /\ Top.todo # << >> /\ occupied = NoError /\ ~ failed
      /\ Head(Top.todo).k \in {"instance"} /\ UNCHANGED design
  BY DEF serialize_component_instance, Next_, Running
<1>2. /\ InPart /\ Head(Top.todo) = NextOne
      /\ NextOne.of.id \in Objects \ DOMAIN design.netlists /\ AsksFor(NextOne) \in Suggestions
  BY <1>1, NextOneFacts
<1>3. PICK p, c : p = NextOne /\ c = p.of
  OBVIOUS
<1>4. p.k = "instance" /\ AsksFor(p) = Netlist(c.of).name
  BY <1>1, <1>2, <1>3 DEF AsksFor
<1>t. PICK text : text = [r \in DOMAIN c.conn |-> [port |-> all_names[r], use |-> serialize_use(all_names, c.conn[r])]]
  OBVIOUS
<1>5. /\ NamedAs(Netlist(c.of).name, c.id, FALSE)
      /\ IF occupied' # NoError THEN UNCHANGED <<stack, written, failed>>
         ELSE \/ failed' = TRUE /\ UNCHANGED <<stack, written>>
              \/ Rest /\ Write(Item("instance", c.of, c.id, all_names[c.of], text))
  <2>1. Head(Top.todo).of = c
    BY <1>2, <1>3
  <2>2. LET d == Head(Top.todo).of
            crash == \E r \in DOMAIN d.conn : Unwritable(d.conn[r])
            txt == [r \in DOMAIN d.conn |-> [port |-> all_names[r], use |-> serialize_use(all_names, d.conn[r])]]
        IN  /\ NamedAs(Netlist(d.of).name, d.id, FALSE)
            /\ IF occupied' # NoError THEN UNCHANGED <<stack, written, failed>>
               ELSE IF crash THEN failed' = TRUE /\ UNCHANGED <<stack, written>>
               ELSE Rest /\ Write(Item("instance", d.of, d.id, all_names[d.of], txt)) /\ UNCHANGED failed
    BY DEF serialize_component_instance
  <2> QED BY <1>t, <2>1, <2>2
<1>6. /\ InBody /\ Len(items) = 2 /\ Len(items') = 2
      /\ IInv' /\ Levels' /\ DOMAIN all_names \subseteq DOMAIN all_names'
      /\ Keeps(c.id) \/ Throws(c.id) \/ Gets(c.id, Netlist(c.of).name, 2)
  <2>1. Netlist(c.of).name \in Suggestions /\ c.id \in Objects \ DOMAIN design.netlists
    BY <1>2, <1>3, <1>4
  <2> QED BY <1>1, <1>5, <2>1, PartNamed
<1>7. Named
  BY <1>3, <1>4, <1>6 DEF Named
<1>n. NamedAs(AsksFor(NextOne), NextOne.of.id, FALSE)
  BY <1>3, <1>4, <1>5
<1>8. CASE occupied' # NoError
  <2>1. UNCHANGED <<stack, written>>
    BY <1>5, <1>8
  <2>2. Struct'
    BY <1>1, <1>6, <2>1, StructStays
  <2> QED BY <1>1, <1>2, <1>3, <1>4, <1>6, <1>7, <1>n, <1>8, <2>1, <2>2 DEF Fails
<1>9. CASE occupied' = NoError /\ failed' = TRUE /\ UNCHANGED <<stack, written>>
  <2>2. Struct'
    BY <1>1, <1>6, <1>9, StructStays
  <2>3. failed' # failed
    BY <1>1, <1>9
  <2> QED BY <1>1, <1>2, <1>3, <1>4, <1>6, <1>7, <1>n, <1>9, <2>2, <2>3 DEF Crash
<1>10. CASE occupied' = NoError /\ Rest /\ Write(Item("instance", c.of, c.id, all_names[c.of], text))
  <2>a. PICK w : w = Item("instance", c.of, c.id, all_names[c.of], text)
    OBVIOUS
  <2>1. written' = Append(written, w)
    BY <1>10, <2>a DEF Write
  <2>2. Adds(w) /\ WrittenOK'
    BY <2>1, WriteFacts DEF Struct
  <2>3. Longer
    BY <2>2 DEF Longer
  <2>4. Struct' /\ Goes
    BY <1>1, <1>6, <1>10, <2>2, <2>3, RestFacts
  <2>5. DOMAIN text = DOMAIN c.conn /\ \A r \in DOMAIN text : text[r].port = all_names[r]
    BY <1>t
  <2>6. /\ DOMAIN text = DOMAIN NextOne.of.conn
        /\ \A r \in DOMAIN text : text[r].port = all_names[r]
        /\ Adds(Item("instance", NextOne.of.of, NextOne.of.id, all_names[NextOne.of.of], text))
    BY <1>3, <2>a, <2>2, <2>5, Zenon
  <2>7. NextOne.k = "instance"
    BY <1>3, <1>4
  <2> QED BY <1>1, <1>2, <1>6, <1>7, <1>n, <1>10, <2>4, <2>6, <2>7, Zenon
<1> QED
  BY <1>5, <1>8, <1>9, <1>10

(* serialize_endmodule keeps Struct; the names of the body lose their      *)
(* level.                                                                  *)
LEMMA EndStep ==
  ASSUME Struct, serialize_endmodule
  PROVE  /\ Struct' /\ UNCHANGED <<design, all_names, asked, occupied>>
         /\ stack # << >> /\ InBody /\ Taken(Top) = Len(Body(Top.of)) /\ Top.of \in DOMAIN design.netlists
         /\ Popped /\ Len(items) = 2 /\ Len(items') = 1 /\ ~ InBody' /\ level_pop
         /\ \A o \in DOMAIN all_names : home'[o] = IF home[o] = 2 THEN 0 ELSE home[o]
         /\ Adds(Item("endmodule", Top.of, Top.of, all_names[Top.of], << >>))
         /\ Top.of \in DOMAIN all_names
<1> USE DEF Struct
<1>1. /\ stack # << >> /\ Top.stage = "body" /\ Top.todo = << >> /\ occupied = NoError /\ level_pop
      /\ written' = Append(written, Item("endmodule", Top.of, Top.of, all_names[Top.of], << >>))
      /\ stack' = Front(stack) /\ UNCHANGED design
  BY DEF serialize_endmodule, Running, Write
<1>2. IInv' /\ UNCHANGED <<all_names, occupied, asked>>
  BY <1>1, LevelPopStep DEF level_pop
<1>3. InBody /\ Len(items) = 2
  BY <1>1 DEF InBody, StackOK
<1>4. \A o \in DOMAIN all_names : home'[o] = IF home[o] = 2 THEN 0 ELSE home[o]
  <2>1. home' = [o \in Objects |-> IF home[o] = Len(items) THEN 0 ELSE home[o]]
    BY <1>1 DEF level_pop
  <2>2. DOMAIN all_names \subseteq Objects
    BY DEF IInv, ObjectsType, NameMaps
  <2> QED BY <1>3, <2>1, <2>2
<1>5. Levels'
  <2>1. \A o : Netlist(o)' = Netlist(o)
    BY <1>1, Static
  <2>2. \A o \in DOMAIN all_names :
          IF o \in DOMAIN design.netlists THEN home'[o] = 1 /\ asked[o] = Netlist(o).name ELSE home'[o] # 1
    BY <1>4 DEF Levels
  <2> QED BY <1>1, <1>2, <2>1, <2>2 DEF Levels
<1>6. Len(items') = 1
  <2>1. PICK s : s = items
    OBVIOUS
  <2>2. s \in Seq(ItemMaps) /\ Len(s) = 2
    BY <1>3, <2>1 DEF IInv, LevelsType
  <2>3. items' = SubSeq(s, 1, 1)
    BY <1>1, <2>1, <2>2 DEF level_pop
  <2>4. Len(SubSeq(s, 1, 1)) = 1
    BY <2>2
  <2> QED BY <2>3, <2>4
<1>7. PICK w : w = Item("endmodule", Top.of, Top.of, all_names[Top.of], << >>)
  OBVIOUS
<1>8. Adds(w) /\ WrittenOK'
  BY <1>1, <1>7, WriteFacts
<1>9. Longer
  BY <1>8 DEF Longer
<1>10. Popped
  BY <1>1, PopFacts
<1>11. StackOK'
  BY <1>1, <1>6, <1>10, StackPopped
<1>12. ~ InBody'
  <2>1. Len(items') = IF InBody' THEN 2 ELSE 1
    BY <1>11 DEF StackOK
  <2> SUFFICES ASSUME InBody' PROVE FALSE
    OBVIOUS
  <2>2. Len(items') = 2
    BY <2>1
  <2> QED BY <1>6, <2>2
<1>13. PICK t : t = Top
  OBVIOUS
<1>14. FrameOK(t) /\ design \in Designs /\ t.of \in DOMAIN design.netlists /\ t.stage = "body" /\ t.todo = << >>
  BY <1>1, <1>13, TopFacts
<1>15. Taken(t) = Len(Body(t.of))
  <2>1. Len(t.todo) = 0
    BY <1>14
  <2>2. All(t) = Body(t.of)
    BY <1>14 DEF All
  <2>3. Len(All(t)) \in Nat
    BY <1>14, AllIsSeq
  <2>4. PICK m \in Nat : m = Len(All(t))
    BY <2>3
  <2>5. Taken(t) = m - 0 /\ m - 0 = m
    BY <2>1, <2>4 DEF Taken
  <2> QED BY <2>2, <2>4, <2>5
<1>16. t.of \in DOMAIN all_names
  BY <1>1, <1>13 DEF DependenciesFirst
<1>17. PICK l \in Nat \ {0} : l = Len(stack)
  BY <1>1, TopFacts
<1>18. /\ Len(stack') = l - 1 /\ \A i \in 1 .. l - 1 : stack'[i] = stack[i]
       /\ (stack' = << >>) <=> (l = 1)
       /\ stack' # << >> => Top' = stack[l - 1]
  BY <1>10, <1>17 DEF Popped
<1>19. ASSUME NEW i \in 1 .. l - 1 PROVE Served(stack[i], FALSE)'
  <2>1. PICK h : h = stack[i]
    OBVIOUS
  <2>2. Served(h, FALSE)
    BY <1>17, <2>1 DEF DependenciesFirst
  <2>3. Served(h, FALSE)'
    BY <1>1, <1>2, <1>9, <2>2, ServedStays
  <2> QED BY <1>18, <2>1, <2>3
<1>20. ASSUME stack' # << >>
       PROVE  Served(Top, TRUE)' /\ Top'.stage = "dependencies"
  <2>1. PICK h : h = stack[l - 1]
    OBVIOUS
  <2>2. l - 1 \in 1 .. l - 1 /\ l - 1 + 1 = l
    BY <1>17, <1>18, <1>20
  <2>3. Waits(h, t)
    <3>1. Waits(stack[l - 1], stack[l - 1 + 1])
      BY <1>17, <2>2 DEF StackOK
    <3>2. stack[l] = t
      BY <1>1, <1>13, <1>17, TopFacts
    <3> QED BY <2>1, <2>2, <3>1, <3>2
  <2>4. h.stage = "dependencies" /\ SortedComponents(h.of)[Taken(h)].of = t.of
    BY <2>3 DEF Waits
  <2>5. Served(h, FALSE)
    BY <1>17, <2>1, <2>2 DEF DependenciesFirst
  <2>6. FrameOK(h)
    BY <1>17, <2>1, <2>2 DEF StackOK
  <2>7. PICK m \in Nat : m = Taken(h)
    BY <1>14, <2>6, AllIsSeq
  <2>8. \A k \in 1 .. m - 1 : Settled(SortedComponents(h.of)[k].of)
    BY <2>4, <2>5, <2>7 DEF Served, Delivered
  <2>9. Settled(t.of)'
    <3>1. PICK j : j = Len(written) + 1
      OBVIOUS
    <3>2. Len(written) \in Nat /\ Len(written') = j /\ written'[j] = w
      BY <1>8, <1>9, <3>1, WrittenGrows DEF Adds
    <3>3. w.k = "endmodule" /\ w.of = t.of
      BY <1>7, <1>13 DEF Item
    <3>4. j \in 1 .. Len(written') /\ written'[j].k = "endmodule" /\ written'[j].of = t.of
      BY <3>1, <3>2, <3>3
    <3>5. j \in Written("endmodule")'
      BY <1>9, <3>4, WrittenGrows
    <3> QED BY <1>2, <1>16, <3>4, <3>5 DEF Settled
  <2>10. PICK s : s = SortedComponents(h.of)
    OBVIOUS
  <2>11. \A k \in 1 .. m : Settled(s[k].of)'
    <3> SUFFICES ASSUME NEW k \in 1 .. m PROVE Settled(s[k].of)'
      OBVIOUS
    <3>1. PICK x : x = s[k].of
      OBVIOUS
    <3>2. CASE k = m
      <4>1. x = t.of
        BY <2>4, <2>7, <2>10, <3>1, <3>2
      <4> QED BY <2>9, <3>1, <4>1
    <3>3. CASE k # m
      <4>1. k \in 1 .. m - 1
        BY <2>7, <3>3
      <4>2. Settled(x)
        BY <2>8, <2>10, <3>1, <4>1
      <4>3. Settled(x)'
        BY <1>2, <1>9, <4>2, SettledStays
      <4> QED BY <3>1, <4>3
    <3> QED BY <3>2, <3>3
  <2>12. Delivered(h, TRUE)' = m /\ SortedComponents(h.of)' = s
    <3>1. Delivered(h, TRUE)' = Delivered(h, TRUE) /\ SortedComponents(h.of)' = s
      BY <1>1, <2>10, Static
    <3>2. Delivered(h, TRUE) = m - 0 /\ m - 0 = m
      BY <2>4, <2>7 DEF Delivered
    <3> QED BY <3>1, <3>2
  <2>13. Served(h, TRUE)'
    BY <2>11, <2>12 DEF Served
  <2>14. Top' = h
    BY <1>18, <1>20, <2>1
  <2> QED BY <2>4, <2>13, <2>14
<1>21. DependenciesFirst'
  <2>1. \A i \in 1 .. Len(stack') - 1 : i \in 1 .. l - 1
    BY <1>17, <1>18
  <2> QED BY <1>19, <1>20, <2>1 DEF DependenciesFirst
<1>22. Struct'
  BY <1>2, <1>5, <1>8, <1>11, <1>21
<1> QED
  BY <1>1, <1>2, <1>3, <1>4, <1>6, <1>7, <1>8, <1>10, <1>12, <1>13, <1>14, <1>15, <1>16, <1>22
-----------------------------------------------------------------------------
(* ClashInv is kept by every action. *)

(* The counters of a level are its own: no level has a child when it       *)
(* counts.                                                                 *)
LEMMA CounterDomains ==
  ASSUME LevelsType, NEW l \in 1 .. Len(items), NEW p, NEW c,
         __incrPrefixCntrsForChilds(l, p, c)
  PROVE  /\ DOMAIN cntrs'[l] = DOMAIN cntrs[l] \cup {p}
         /\ \A m \in 1 .. Len(items) : m # l => cntrs'[m] = cntrs[m]
<1>1. Followers(l, p) = {}
  <2> SUFFICES ASSUME NEW m \in Followers(l, p) PROVE FALSE
    OBVIOUS
  <2>1. m \in l + 1 .. Len(items) /\ \A k \in l .. m - 1 : get_child(k) = k + 1
    BY DEF Followers
  <2>2. l \in l .. m - 1 /\ get_child(l) = 0
    BY <2>1 DEF get_child, LevelsType
  <2> QED
    BY <2>1, <2>2
<1>2. DOMAIN cntrs = 1 .. Len(items)
  BY DEF LevelsType
<1>3. cntrs' = [m \in 1 .. Len(items) |-> IF m = l THEN WithEntry(p, c + 1, cntrs[m]) ELSE cntrs[m]]
  BY <1>1, <1>2 DEF __incrPrefixCntrsForChilds
<1>4. cntrs'[l] = WithEntry(p, c + 1, cntrs[l]) /\ \A m \in 1 .. Len(items) : m # l => cntrs'[m] = cntrs[m]
  BY <1>3
<1>5. DOMAIN cntrs'[l] = DOMAIN cntrs[l] \cup {p}
  BY <1>4 DEF WithEntry
<1> QED
  BY <1>4, <1>5

(* The number 0 of a name is that of its prefix. *)
LEMMA ZeroOfPrefix ==
  ASSUME NEW n \in Name
  PROVE  Zero(WithUnderscore(n)) = Folded(WithNumber(n, 0))
<1>1. WithNumber(WithUnderscore(n), 0) = WithNumber(n, 0)
  BY DEF WithNumber, WithUnderscore
<1> QED
  BY <1>1 DEF Zero

(* The names of level l after a name was given in it. *)
LEMMA GiveDomains ==
  ASSUME LevelsType, NEW obj \in Objects, NEW l \in 1 .. Len(items), NEW n \in Name, Give(l, n, obj)
  PROVE  /\ DOMAIN items'[l] = DOMAIN items[l] \cup {Folded(n)}
         /\ \A k \in 1 .. Len(items) : k # l => items'[k] = items[k]
         /\ Len(items') = Len(items) /\ occupied' = occupied
<1>1. __registerName(l, n, obj) /\ occupied' = occupied
  BY DEF Give
<1>2. /\ Len(items') = Len(items) /\ \A k \in 1 .. Len(items) : k # l => items'[k] = items[k]
      /\ items'[l] = WithEntry(Folded(n), obj, items[l])
  BY <1>1, RegisterFacts
<1> QED
  BY <1>1, <1>2 DEF WithEntry

(* The number 0 of a prefix that the outer level counted is a name of the  *)
(* outer level, that of one that the body of a module counts is none.      *)
LEMMA ScopeStep ==
  ASSUME IInv, Zeros, Asked, occupied = NoError, NEW n \in Suggestions, NEW obj \in Objects \ DOMAIN all_names,
         NEW isGlobal \in BOOLEAN, NEW l \in {1, 2}, Len(items) = l, isGlobal <=> l = 1,
         NamedAs(n, obj, isGlobal)
  PROVE  Zeros' /\ Asked'
<1>1. LevelsType /\ Entries /\ n \in Name /\ DOMAIN all_names \subseteq DOMAIN asked
  BY NamesAssumption DEF IInv, ObjectsType
<1>2. checkedName(n, obj, isGlobal)
  BY DEF NamedAs
<1>3. /\ asked' = WithEntry(obj, n, asked)
      /\ get_suggested_name(l, n, obj) \/ get_numbered_name(l, n, obj)
  BY <1>2 DEF checkedName
<1>4. 1 \in 1 .. Len(items) /\ l \in 1 .. Len(items)
  OBVIOUS
<1>5. /\ \A p \in DOMAIN cntrs[1] : Zero(p) \in DOMAIN items[1]
      /\ l = 2 => \A p \in DOMAIN cntrs[2] : Zero(p) \notin DOMAIN items[1]
  BY DEF Zeros
<1>6. asked'[obj] = n /\ \A o \in DOMAIN all_names : asked'[o] = asked[o]
  BY <1>1, <1>3 DEF WithEntry

(* What is new in the outer level. *)
<1>7. ASSUME NEW m \in Name, Give(l, m, obj),
             l = 1 => Folded(n) \in DOMAIN items[1] \cup {Folded(m)} \/ EndsOpen(n)
      PROVE  Asked' /\ DOMAIN items[1] \subseteq DOMAIN items'[1]
  <2>1. /\ DOMAIN items'[l] = DOMAIN items[l] \cup {Folded(m)}
        /\ \A k \in 1 .. Len(items) : k # l => items'[k] = items[k]
    BY <1>1, <1>4, <1>7, GiveDomains
  <2>2. DOMAIN items[1] \subseteq DOMAIN items'[1] /\ (l = 1 => Folded(m) \in DOMAIN items'[1])
    BY <1>4, <2>1
  <2>3. DOMAIN all_names' = DOMAIN all_names \cup {obj}
    BY <1>7 DEF Give, WithEntry
  <2>4. home'[obj] = l /\ \A o \in DOMAIN all_names : home'[o] = home[o]
    <3>1. home \in [Objects -> 0 .. Len(items)] /\ DOMAIN all_names \subseteq Objects
      BY DEF IInv, ObjectsType, NameMaps
    <3>2. home' = [home EXCEPT ![obj] = l]
      BY <1>7 DEF Give
    <3> QED BY <3>1, <3>2
  <2>5. ASSUME NEW o \in DOMAIN all_names', home'[o] = 1, ~ EndsOpen(asked'[o])
        PROVE  Folded(asked'[o]) \in DOMAIN items'[1]
    <3>1. CASE o = obj
      BY <1>6, <1>7, <2>2, <2>4, <2>5, <3>1
    <3>2. CASE o \in DOMAIN all_names
      BY <1>6, <2>2, <2>4, <2>5, <3>2 DEF Asked
    <3> QED BY <2>3, <3>1, <3>2
  <2>6. (\A o \in DOMAIN all_names : home[o] = 1 /\ ~ EndsOpen(asked[o]) => Folded(asked[o]) \in DOMAIN items[1])'
    BY <2>5 DEF Folded, EndsOpen
  <2> QED BY <2>2, <2>6 DEF Asked
<1>8. CASE get_suggested_name(l, n, obj)
  <2>1. Give(l, n, obj) /\ cntrs' = cntrs
    BY <1>8 DEF get_suggested_name
  <2>2. Asked' /\ DOMAIN items[1] \subseteq DOMAIN items'[1]
    BY <1>1, <1>7, <2>1
  <2>3. Len(items') = l /\ (l = 2 => items'[1] = items[1])
    BY <1>1, <1>4, <2>1, GiveDomains
  <2>4. Zeros'
    BY <1>5, <2>1, <2>2, <2>3 DEF Zeros, Zero, Folded, WithNumber
  <2> QED BY <2>2, <2>4
<1>9. CASE get_numbered_name(l, n, obj)
  <2>1. PICK p, c : p = WithUnderscore(n) /\ c = Counter(l, p)
    OBVIOUS
  <2>2. PICK u : u = WithNumber(n, c + 1)
    OBVIOUS
  <2>3. /\ EndsOpen(n) \/ ~ CanRegister(l, n, obj)
        /\ __incrPrefixCntrsForChilds(l, p, c)
        /\ IF CanRegister(l, u, obj) THEN Give(l, u, obj)
           ELSE /\ occupied' = <<obj, l, u>>
                /\ UNCHANGED <<items, all_names, home, order>>
    BY <1>9, <2>1, <2>2 DEF get_numbered_name
  <2>4. /\ DOMAIN cntrs'[l] = DOMAIN cntrs[l] \cup {p}
        /\ \A m \in 1 .. Len(items) : m # l => cntrs'[m] = cntrs[m]
    BY <1>1, <1>4, <2>3, CounterDomains
  <2>5. c \in Nat \cup {-1} /\ (p \notin DOMAIN cntrs[l] => c = -1)
    BY <1>1, <1>4, <2>1, CounterType DEF Counter
  <2>6. c + 1 \in Nat /\ u \in Name
    <3>1. c + 1 \in Nat
      BY <2>5
    <3> QED BY <1>1, <2>2, <3>1, NameFacts
  <2>7. p \notin DOMAIN cntrs[l] => Zero(p) = Folded(u)
    <3> SUFFICES ASSUME p \notin DOMAIN cntrs[l] PROVE Zero(p) = Folded(u)
      OBVIOUS
    <3>1. c + 1 = 0
      BY <2>5
    <3> QED BY <1>1, <2>1, <2>2, <3>1, ZeroOfPrefix
  <2>8. CASE CanRegister(l, u, obj)
    <3>1. Give(l, u, obj)
      BY <2>3, <2>8
    <3>2. l = 1 => Folded(n) \in DOMAIN items[1] \/ EndsOpen(n)
      <4> SUFFICES ASSUME l = 1, ~ EndsOpen(n) PROVE Folded(n) \in DOMAIN items[1]
        OBVIOUS
      <4>1. holders(1, Folded(n)) # {}
        BY <2>3 DEF CanRegister
      <4> QED BY <4>1 DEF holders
    <3>3. Asked' /\ DOMAIN items[1] \subseteq DOMAIN items'[1]
      BY <1>7, <2>6, <3>1, <3>2
    <3>4. /\ DOMAIN items'[l] = DOMAIN items[l] \cup {Folded(u)} /\ Len(items') = l
          /\ \A k \in 1 .. Len(items) : k # l => items'[k] = items[k]
      BY <1>1, <1>4, <2>6, <3>1, GiveDomains
    <3>5. \A k \in 1 .. l : Folded(u) \notin DOMAIN items[k]
      BY <1>1, <1>4, <2>8, CandidateFree
    <3>6. ASSUME NEW q \in DOMAIN cntrs'[1] PROVE Zero(q) \in DOMAIN items'[1]
      <4>1. CASE q \in DOMAIN cntrs[1]
        BY <1>5, <3>3, <4>1
      <4>2. CASE q \notin DOMAIN cntrs[1]
        <5>1. l = 1 /\ q = p
          BY <1>4, <2>4, <3>6, <4>2
        <5> QED BY <2>7, <3>4, <4>2, <5>1
      <4> QED BY <4>1, <4>2
    <3>7. ASSUME l = 2, NEW q \in DOMAIN cntrs'[2] PROVE Zero(q) \notin DOMAIN items'[1]
      <4>1. items'[1] = items[1]
        BY <1>4, <3>4, <3>7
      <4>2. CASE q \in DOMAIN cntrs[2]
        BY <1>5, <3>7, <4>1, <4>2
      <4>3. CASE q \notin DOMAIN cntrs[2]
        <5>1. q = p /\ 1 \in 1 .. l
          BY <2>4, <3>7, <4>3
        <5> QED BY <2>7, <3>5, <3>7, <4>1, <4>3, <5>1
      <4> QED BY <4>2, <4>3
    <3>8. Zeros'
      BY <3>4, <3>6, <3>7 DEF Zeros, Zero, Folded, WithNumber
    <3> QED BY <3>3, <3>8
  <2>9. CASE ~ CanRegister(l, u, obj)
    <3>1. occupied' = <<obj, l, u>> /\ UNCHANGED <<items, all_names, home>>
      BY <2>3, <2>9
    <3>2. obj # NoObject
      BY ObjectsAssumption
    <3>3. occupied' # NoError
      BY <3>1, <3>2 DEF NoError
    <3>4. Zeros'
      BY <3>3 DEF Zeros, NoError
    <3>5. Asked'
      BY <1>6, <3>1 DEF Asked, Folded, EndsOpen
    <3> QED BY <3>4, <3>5
  <2> QED BY <2>8, <2>9
<1> QED
  BY <1>3, <1>8, <1>9

(* Each component has its part in the body. *)
LEMMA ComponentPart ==
  ASSUME design \in Designs, NEW n \in DOMAIN design.netlists, NEW c \in Elements(Netlist(n).comps)
  PROVE  /\ \E j \in 1 .. Len(Body(n)) : Body(n)[j].k = "instance" /\ Body(n)[j].of = c
         /\ \E k \in 1 .. Len(SortedComponents(n)) : SortedComponents(n)[k] = c
<1>1. PICK i \in 1 .. Len(Netlist(n).comps) : c = Netlist(n).comps[i]
  BY Sorted, OwnElements DEF Elements
<1>2. PICK f : Rearranges(f, Netlist(n).comps, SortedComponents(n))
  BY BodyFacts
<1>3. PICK k \in 1 .. Len(Netlist(n).comps) : f[k] = i
  BY <1>1, <1>2 DEF Rearranges
<1>4. SortedComponents(n)[k] = c
  BY <1>1, <1>2, <1>3 DEF Rearranges
<1>5. Len(SortedComponents(n)) = Len(Netlist(n).comps)
  BY Sorted, RearrangedFacts
<1>6. PICK d, l : d = Declarations(n) /\ l = Len(SortedComponents(n))
  OBVIOUS
<1>7. /\ d \in Nat /\ Len(Body(n)) = d + l
      /\ \A x \in 1 .. l : /\ Body(n)[d + x].k = "instance"
                          /\ Body(n)[d + x].of = SortedComponents(n)[x]
  BY <1>6, BodyFacts
<1>8. l \in Nat /\ k \in 1 .. l
  <2>1. SortedComponents(n) \in Seq(Elements(Netlist(n).comps))
    BY BodyFacts
  <2> QED BY <1>3, <1>5, <1>6, <2>1, OwnElements
<1>9. d + k \in 1 .. Len(Body(n))
  BY <1>7, <1>8
<1> QED
  BY <1>4, <1>6, <1>7, <1>8, <1>9

(* A component is a part of one body, at one place. *)
LEMMA ComponentId ==
  ASSUME design \in Designs, NEW n \in DOMAIN design.netlists, NEW c \in Elements(Netlist(n).comps)
  PROVE  /\ c.id \in Objects \ DOMAIN design.netlists
         /\ \A m \in DOMAIN design.netlists : \A q \in 1 .. Len(Body(m)) :
              Body(m)[q].of.id = c.id => m = n /\ Body(m)[q].k = "instance" /\ Body(m)[q].of = c
<1>1. PICK j \in 1 .. Len(Body(n)) : Body(n)[j].k = "instance" /\ Body(n)[j].of = c
  BY ComponentPart
<1>2. c.id \in Objects \ DOMAIN design.netlists
  BY <1>1, BodyIds
<1>3. ASSUME NEW m \in DOMAIN design.netlists, NEW q \in 1 .. Len(Body(m)), Body(m)[q].of.id = c.id
      PROVE  m = n /\ Body(m)[q].k = "instance" /\ Body(m)[q].of = c
  <2>1. Body(m)[q].of.id = Body(n)[j].of.id
    BY <1>1, <1>3
  <2>2. m = n /\ q = j
    BY <2>1, BodyIds
  <2> QED BY <1>1, <2>2
<1> QED
  BY <1>2, <1>3

(* In the body of a module those of its components have their names. *)
LEMMA ComponentsNamed ==
  ASSUME Struct, InBody, NEW c \in Elements(Netlist(Top.of).comps)
  PROVE  c.of \in DOMAIN all_names /\ c.of \in DOMAIN design.netlists /\ Settled(c.of)
<1>1. design \in Designs /\ Top.of \in DOMAIN design.netlists /\ stack # << >> /\ Top.stage = "body"
  BY TopFacts DEF Struct, InBody
<1>2. PICK k \in 1 .. Len(SortedComponents(Top.of)) : SortedComponents(Top.of)[k] = c
  BY <1>1, ComponentPart
<1>3. Served(Top, TRUE) /\ Delivered(Top, TRUE) = Len(SortedComponents(Top.of))
  BY <1>1 DEF Struct, DependenciesFirst, Delivered
<1>4. Settled(c.of)
  BY <1>2, <1>3 DEF Served
<1>5. c.of \in DOMAIN design.netlists
  BY <1>1, ComponentFacts
<1> QED
  BY <1>4, <1>5 DEF Settled

(* Two netlists that share a name: the number 0 is taken in the outer      *)
(* level, and the body of a module finds neither the name nor that number. *)
LEMMA ClashThrows ==
  ASSUME Struct, Zeros, Asked, occupied = NoError, Len(items) = 2,
         NEW a \in DOMAIN all_names, NEW b \in DOMAIN all_names,
         a \in DOMAIN design.netlists, b \in DOMAIN design.netlists, a # b,
         NEW q \in Suggestions, q = Netlist(a).name, q = Netlist(b).name,
         NEW obj \in Objects \ DOMAIN all_names, NamedAs(q, obj, FALSE)
  PROVE  occupied' # NoError
<1>1. home[a] = 1 /\ home[b] = 1 /\ asked[a] = q /\ asked[b] = q
  BY DEF Struct, Levels
<1>2. q \in Name /\ LevelsType /\ Entries
  BY NamesAssumption DEF Struct, IInv
<1>3. Folded(all_names[a]) # Folded(all_names[b])
  <2>1. Shadowing
    BY DEF Struct, IInv
  <2>2. a # b /\ home[a] # 0 /\ home[b] >= home[a] /\ ~ (home[b] > home[a])
    BY <1>1
  <2> QED BY <2>1, <2>2 DEF Shadowing
<1>4. PICK d \in {a, b} : asked[d] # all_names[d]
  BY <1>1, <1>3
<1>5. PICK p : p = WithUnderscore(q)
  OBVIOUS
<1>6. p \in DOMAIN cntrs[1]
  <2>1. Counted
    BY DEF Struct, IInv
  <2>2. d \in DOMAIN all_names /\ home[d] = 1 /\ asked[d] = q /\ home[d] # 0
    BY <1>1
  <2>3. PICK i \in Nat : i <= Counter(1, p)
    BY <1>4, <1>5, <2>1, <2>2 DEF Counted
  <2> QED BY <2>3 DEF Counter
<1>7. Zero(p) \in DOMAIN items[1]
  BY <1>6 DEF Zeros
<1>8. EndsOpen(q) \/ Folded(q) \in DOMAIN items[1]
  BY <1>1 DEF Asked
<1>9. p \notin DOMAIN cntrs[2]
  BY <1>7 DEF Zeros
<1>10. get_suggested_name(2, q, obj) \/ get_numbered_name(2, q, obj)
  BY DEF NamedAs, checkedName
<1>11. 2 \in 1 .. Len(items)
  OBVIOUS
<1>12. ~ get_suggested_name(2, q, obj)
  <2> SUFFICES ASSUME get_suggested_name(2, q, obj) PROVE FALSE
    OBVIOUS
  <2>1. ~ EndsOpen(q) /\ CanRegister(2, q, obj)
    BY DEF get_suggested_name
  <2>2. \A k \in 1 .. 2 : Folded(q) \notin DOMAIN items[k]
    BY <1>2, <1>11, <2>1, CandidateFree
  <2> QED BY <1>8, <2>1, <2>2
<1>13. Counter(2, p) + 1 = 0
  BY <1>9 DEF Counter
<1>14. PICK u : u = WithNumber(q, 0)
  OBVIOUS
<1>15. IF CanRegister(2, u, obj) THEN Give(2, u, obj) ELSE occupied' = <<obj, 2, u>>
  <2>1. get_numbered_name(2, q, obj)
    BY <1>10, <1>12
  <2>2. LET prefix == WithUnderscore(q)
            usable == WithNumber(q, Counter(2, prefix) + 1)
        IN  IF CanRegister(2, usable, obj) THEN Give(2, usable, obj) ELSE occupied' = <<obj, 2, usable>>
    BY <2>1 DEF get_numbered_name
  <2>3. WithNumber(q, Counter(2, p) + 1) = u
    BY <1>13, <1>14
  <2> QED BY <1>5, <2>2, <2>3
<1>16. ~ CanRegister(2, u, obj)
  <2> SUFFICES ASSUME CanRegister(2, u, obj) PROVE FALSE
    OBVIOUS
  <2>1. \A k \in 1 .. 2 : Folded(u) \notin DOMAIN items[k]
    BY <1>2, <1>11, CandidateFree
  <2>2. Zero(p) = Folded(u)
    BY <1>2, <1>5, <1>14, ZeroOfPrefix
  <2> QED BY <1>7, <2>1, <2>2
<1>17. obj # NoObject
  BY ObjectsAssumption
<1> QED
  BY <1>15, <1>16, <1>17 DEF NoError
-----------------------------------------------------------------------------
(* Clashes are a matter of the design. *)
LEMMA ClashStatic ==
  ASSUME UNCHANGED design
  PROVE  /\ \A n, c : Clash(n, c)' <=> Clash(n, c)
         /\ \A n : NoClash(n)' <=> NoClash(n)
<1>1. \A n : Netlist(n)' = Netlist(n)
  BY Static
<1>2. \A n, c : Clash(n, c)' <=> Clash(n, c)
  BY <1>1 DEF Clash
<1>3. ASSUME NEW n PROVE NoClash(n)' <=> NoClash(n)
  BY <1>1, <1>2 DEF NoClash
<1> QED
  BY <1>2, <1>3

(* What was written before has no clash, once the body is left or as long  *)
(* as it goes on.                                                          *)
LEMMA ClashGoesOn ==
  ASSUME WrittenOK, Longer, ClashStays, UNCHANGED design,
         NEW n, InBody => Top.of = n,
         InBody => NoClash(n) \/ (InBody' /\ Top.of' = n),
         \A h \in Written("module")' \ Written("module") : InBody' /\ Top.of' = written'[h].of
  PROVE  ClashStays'
<1>1. ASSUME NEW h \in Written("module")' PROVE NoClash(written[h].of)' \/ (InBody' /\ Top.of' = written'[h].of)
  <2>1. CASE h \in Written("module")
    <3>1. h \in 1 .. Len(written) /\ written'[h] = written[h]
      BY <2>1, WrittenGrows
    <3>2. PICK m : m = written[h].of
      OBVIOUS
    <3>3. NoClash(m) \/ (InBody /\ Top.of = m)
      BY <2>1, <3>2 DEF ClashStays
    <3>4. NoClash(m) \/ (InBody' /\ Top.of' = m)
      BY <3>3
    <3>5. NoClash(m)' \/ (InBody' /\ Top.of' = m)
      BY <3>4, ClashStatic
    <3>6. (written[h].of)' = m
      BY <3>1, <3>2
    <3> QED BY <3>5, <3>6
  <2>2. CASE h \notin Written("module")
    BY <1>1, <2>2
  <2> QED BY <2>1, <2>2
<1> QED
  BY <1>1 DEF ClashStays

(* A step that names no component that clashes. *)
LEMMA UnnamedStays ==
  ASSUME ClashesUnnamed, UNCHANGED design,
         \A n \in DOMAIN design.netlists : \A c \in Elements(Netlist(n).comps) :
           Clash(n, c) /\ c.id \in DOMAIN all_names' => c.id \in DOMAIN all_names
  PROVE  ClashesUnnamed'
<1>1. \A n, c : Clash(n, c)' <=> Clash(n, c)
  BY ClashStatic
<1>2. \A n : Netlist(n)' = Netlist(n)
  BY Static
<1>3. ASSUME NEW n \in DOMAIN design.netlists, NEW c \in Elements(Netlist(n).comps), Clash(n, c)
      PROVE  c.id \notin DOMAIN all_names'
  BY <1>3 DEF ClashesUnnamed
<1> QED
  BY <1>1, <1>2, <1>3 DEF ClashesUnnamed, Elements

(* A step that leaves the scope alone. *)
LEMMA ScopeSame ==
  ASSUME Zeros, Asked, UNCHANGED nameVars
  PROVE  Zeros' /\ Asked'
<1>1. Zeros'
  BY DEF nameVars, Zeros, Zero, Folded, WithNumber
<1>2. Asked'
  BY DEF nameVars, Asked, Folded, EndsOpen
<1> QED
  BY <1>1, <1>2

(* serialize_dependency gives no name. *)
LEMMA ClashDependency ==
  ASSUME Struct, ClashInv, serialize_dependency
  PROVE  ClashInv'
<1> USE DEF ClashInv
<1>1. stack # << >> /\ Top.stage = "dependencies" /\ UNCHANGED <<nameVars, design, written>>
  BY DEF serialize_dependency, Running
<1>2. PICK f : Top' = f /\ f.stage = "dependencies"
  BY DependencyStep
<1>3. ~ InBody /\ ~ InBody'
  BY <1>1, <1>2 DEF InBody
<1>4. Zeros' /\ Asked'
  BY <1>1, ScopeSame
<1>5. all_names' = all_names
  BY <1>1 DEF nameVars
<1>6. ClashesUnnamed'
  BY <1>1, <1>5, UnnamedStays
<1>7. PartsNamed'
  BY <1>3 DEF PartsNamed
<1>8. ClashStays'
  <2>1. Longer /\ WrittenOK
    BY <1>1 DEF Longer, Struct
  <2>2. Written("module")' = Written("module")
    BY <1>1 DEF Written
  <2> QED BY <1>1, <1>3, <2>1, <2>2, ClashGoesOn
<1> QED
  BY <1>4, <1>6, <1>7, <1>8

(* The frame on top is that of the stack. *)
LEMMA SameTop ==
  ASSUME stack' = stack
  PROVE  Top' = Top /\ (InBody' <=> InBody)
<1>1. Top' = Top
  BY DEF Top, Last
<1> QED
  BY <1>1 DEF InBody

(* What Append adds need not be of the list's own kind. *)
LEMMA AppendAny ==
  ASSUME NEW X, NEW s \in Seq(X), NEW e
  PROVE  /\ Len(Append(s, e)) = Len(s) + 1 /\ Append(s, e)[Len(s) + 1] = e
         /\ \A i \in 1 .. Len(s) : Append(s, e)[i] = s[i]
<1>1. s \in Seq(X \cup {e}) /\ e \in X \cup {e}
  OBVIOUS
<1> QED
  BY <1>1

(* What a step writes other than the first line of a module. *)
LEMMA NoHeadAdded ==
  ASSUME WrittenOK, written' = written \/ \E w : Adds(w) /\ w.k # "module"
  PROVE  Longer /\ Written("module")' = Written("module")
<1>1. CASE written' = written
  BY <1>1 DEF Longer, Written
<1>2. ASSUME NEW w, Adds(w), w.k # "module"
      PROVE  Longer /\ Written("module")' = Written("module")
  <2>1. Longer
    BY <1>2 DEF Longer
  <2>2. PICK l \in Nat : l = Len(written)
    BY <2>1, WrittenGrows
  <2>3. /\ Len(written') = l + 1 /\ written'[l + 1] = w
        /\ \A i \in 1 .. l : written'[i] = written[i]
    BY <1>2, <2>2 DEF Adds
  <2>4. /\ Written("module") = {i \in 1 .. l : written[i].k = "module"}
        /\ Written("module")' = {i \in 1 .. l + 1 : written'[i].k = "module"}
    BY <2>1, <2>2, <2>3, WrittenGrows
  <2>5. \A i \in 1 .. l + 1 : i \in 1 .. l \/ i = l + 1
    BY <2>2
  <2>6. \A i \in 1 .. l : i \in 1 .. l + 1
    BY <2>2
  <2> QED BY <1>2, <2>1, <2>3, <2>4, <2>5, <2>6
<1> QED
  BY <1>1, <1>2

(* name_module takes the number 0 of the prefix that it counts. *)
LEMMA ClashNameModule ==
  ASSUME Struct, ClashInv, name_module
  PROVE  ClashInv'
<1> USE DEF ClashInv
<1>1. /\ stack # << >> /\ occupied = NoError /\ UNCHANGED <<design, written>>
      /\ NamedAs(Netlist(Top.of).name, Top.of, TRUE)
  BY DEF name_module, Running
<1>2. /\ Top.stage = "dependencies" /\ Top.of \in DOMAIN design.netlists
      /\ Keeps(Top.of) \/ Throws(Top.of) \/ Gets(Top.of, Netlist(Top.of).name, 1)
      /\ \/ stack' = stack
         \/ Top'.stage = "head"
  BY NameModuleStep
<1>3. ~ InBody /\ ~ InBody'
  <2>1. ~ InBody
    BY <1>2 DEF InBody
  <2>2. CASE stack' = stack
    BY <2>1, <2>2, SameTop
  <2>3. CASE Top'.stage = "head"
    BY <2>1, <2>3 DEF InBody
  <2> QED BY <1>2, <2>1, <2>2, <2>3
<1>4. Zeros' /\ Asked'
  <2>1. CASE Top.of \in DOMAIN all_names
    <3>1. UNCHANGED nameVars
      BY <1>1, <2>1 DEF NamedAs
    <3> QED BY <3>1, ScopeSame
  <2>2. CASE Top.of \notin DOMAIN all_names
    <3>1. Len(items) = 1 /\ IInv /\ 1 \in {1, 2} /\ TRUE \in BOOLEAN
      BY <1>3 DEF Struct, StackOK
    <3>2. PICK q, o : q = Netlist(Top.of).name /\ o = Top.of
      OBVIOUS
    <3>3. q \in Suggestions /\ o \in Objects \ DOMAIN all_names
      BY <1>1, <2>2, <3>2, TopFacts DEF Struct
    <3>4. NamedAs(q, o, TRUE)
      BY <1>1, <3>2
    <3> QED BY <1>1, <3>1, <3>3, <3>4, ScopeStep
  <2> QED BY <2>1, <2>2
<1>5. ClashesUnnamed'
  <2>1. \A o \in DOMAIN all_names' : o \in DOMAIN all_names \/ o = Top.of
    BY <1>2 DEF Keeps, Throws, Gets, nameVars
  <2>2. design \in Designs
    BY DEF Struct, StackOK
  <2>3. ASSUME NEW n \in DOMAIN design.netlists, NEW c \in Elements(Netlist(n).comps),
               c.id \in DOMAIN all_names'
        PROVE  c.id \in DOMAIN all_names
    <3>1. c.id \notin DOMAIN design.netlists
      BY <2>2, ComponentId
    <3> QED BY <1>2, <2>1, <2>3, <3>1
  <2> QED BY <1>1, <2>3, UnnamedStays
<1>6. PartsNamed'
  BY <1>3 DEF PartsNamed
<1>7. ClashStays'
  <2>1. Longer /\ WrittenOK /\ Written("module")' = Written("module")
    BY <1>1, NoHeadAdded DEF Struct
  <2> QED BY <1>1, <1>3, <2>1, ClashGoesOn
<1> QED
  BY <1>4, <1>5, <1>6, <1>7

(* serialize_module_head opens a level without counters. *)
LEMMA ClashHead ==
  ASSUME Struct, ClashInv, serialize_module_head
  PROVE  ClashInv'
<1> USE DEF ClashInv
<1>1. /\ stack # << >> /\ ~ InBody /\ occupied = NoError
      /\ UNCHANGED <<design, all_names, occupied, home, asked>> /\ Len(items) = 1 /\ level_push
      /\ Adds(Item("module", Top.of, Top.of, all_names[Top.of], << >>))
  BY HeadStep
<1>2. PICK f : /\ stack' # << >> /\ Top' = f /\ f.of = Top.of /\ f.stage = "body" /\ Taken(f) = 0
  BY HeadStep
<1>3. InBody'
  BY <1>2 DEF InBody
<1>4. /\ items'[1] = items[1] /\ Len(items') = 2
      /\ cntrs'[1] = cntrs[1] /\ cntrs'[2] = << >>
  <2>1. PICK s, t : s = items /\ t = cntrs
    OBVIOUS
  <2>2. s \in Seq(ItemMaps) /\ t \in Seq(CounterMaps) /\ Len(s) = 1 /\ Len(t) = 1
    BY <1>1, <2>1 DEF Struct, IInv, LevelsType
  <2>3. items' = Append(s, << >>) /\ cntrs' = Append(t, << >>)
    BY <1>1, <2>1 DEF level_push
  <2>4. /\ Len(items') = 2 /\ items'[1] = s[1]
        /\ cntrs'[1] = t[1] /\ cntrs'[2] = << >>
    <3>1. Len(Append(s, << >>)) = Len(s) + 1 /\ \A i \in 1 .. Len(s) : Append(s, << >>)[i] = s[i]
      BY <2>2, AppendAny
    <3>2. /\ Len(Append(t, << >>)) = Len(t) + 1 /\ \A i \in 1 .. Len(t) : Append(t, << >>)[i] = t[i]
          /\ Append(t, << >>)[Len(t) + 1] = << >>
      BY <2>2, AppendAny
    <3> QED BY <2>2, <2>3, <3>1, <3>2
  <2> QED BY <2>1, <2>4
<1>5. Zeros'
  <2>1. DOMAIN cntrs'[2] = {}
    BY <1>4
  <2>2. \A p \in DOMAIN cntrs'[1] : Zero(p) \in DOMAIN items'[1]
    BY <1>1, <1>4 DEF Zeros
  <2> QED BY <2>1, <2>2 DEF Zeros, Zero, Folded, WithNumber
<1>6. Asked'
  <2>1. \A o \in DOMAIN all_names : home[o] = 1 /\ ~ EndsOpen(asked[o]) => Folded(asked[o]) \in DOMAIN items'[1]
    BY <1>4 DEF Asked
  <2> QED BY <1>1, <2>1 DEF Asked, EndsOpen, Folded
<1>7. ClashesUnnamed'
  BY <1>1, UnnamedStays
<1>8. PartsNamed'
  <2>1. Taken(f)' = 0
    BY <1>1, <1>2, Static
  <2>2. Taken(Top)' = 0
    BY <1>2, <2>1
  <2>3. ASSUME NEW i \in 1 .. Taken(Top)' PROVE FALSE
    <3>1. i \in 1 .. 0
      BY <2>2, <2>3
    <3> QED BY <3>1
  <2> QED BY <2>3 DEF PartsNamed
<1>9. ClashStays'
  <2>1. PICK w, n : w = Item("module", n, n, all_names[n], << >>) /\ n = Top.of
    OBVIOUS
  <2>2. Adds(w) /\ w.of = n
    BY <1>1, <2>1 DEF Item
  <2>3. Longer /\ WrittenOK
    BY <2>2 DEF Longer, Struct
  <2>4. PICK l \in Nat : l = Len(written)
    BY <2>3, WrittenGrows
  <2>5. /\ Len(written') = l + 1 /\ written'[l + 1] = w
        /\ \A i \in 1 .. l : written'[i] = written[i]
    BY <2>2, <2>4 DEF Adds
  <2>6. /\ Written("module") = {i \in 1 .. l : written[i].k = "module"}
        /\ Written("module")' = {i \in 1 .. l + 1 : written'[i].k = "module"}
    BY <2>3, <2>4, <2>5, WrittenGrows
  <2>7. ASSUME NEW h \in Written("module")' \ Written("module")
        PROVE  InBody' /\ Top.of' = written'[h].of
    <3>1. h = l + 1
      BY <2>4, <2>5, <2>6, <2>7
    <3> QED BY <1>2, <1>3, <2>1, <2>2, <2>5, <3>1
  <2> QED BY <1>1, <2>3, <2>7, ClashGoesOn
<1> QED
  BY <1>5, <1>6, <1>7, <1>8, <1>9
-----------------------------------------------------------------------------
(* A part of the body gets its name, or not. *)
LEMMA ClashNamed ==
  ASSUME Struct, ClashInv, InPart, Named, UNCHANGED design,
         NextOne.of.id \in Objects \ DOMAIN design.netlists, AsksFor(NextOne) \in Suggestions,
         NamedAs(AsksFor(NextOne), NextOne.of.id, FALSE)
  PROVE  Zeros' /\ Asked' /\ ClashesUnnamed'
<1> USE DEF ClashInv
<1>1. PICK p, n, i : p = NextOne /\ n = Top.of /\ i = Taken(Top) + 1
  OBVIOUS
<1>2. PICK q, o : q = AsksFor(p) /\ o = p.of.id
  OBVIOUS
<1>3. /\ occupied = NoError /\ Len(items) = 2 /\ InBody /\ n \in DOMAIN design.netlists
      /\ i \in 1 .. Len(Body(n)) /\ p = Body(n)[i]
  BY <1>1 DEF InPart, NextOne
<1>4. q \in Suggestions /\ o \in Objects /\ NamedAs(q, o, FALSE)
  BY <1>1, <1>2
<1>5. Keeps(o) \/ Throws(o) \/ Gets(o, q, 2)
  BY <1>1, <1>2 DEF Named
<1>6. Zeros' /\ Asked'
  <2>1. CASE o \in DOMAIN all_names
    <3>1. UNCHANGED nameVars
      BY <1>4, <2>1 DEF NamedAs
    <3> QED BY <3>1, ScopeSame
  <2>2. CASE o \notin DOMAIN all_names
    <3>1. IInv /\ 2 \in {1, 2} /\ FALSE \in BOOLEAN /\ (FALSE <=> 2 = 1) /\ o \in Objects \ DOMAIN all_names
      BY <1>4, <2>2 DEF Struct
    <3> QED BY <1>3, <1>4, <3>1, ScopeStep
  <2> QED BY <2>1, <2>2
<1>7. ASSUME NEW m \in DOMAIN design.netlists, NEW c \in Elements(Netlist(m).comps),
             Clash(m, c), c.id \in DOMAIN all_names', c.id \notin DOMAIN all_names
      PROVE  FALSE
  <2>1. Gets(o, q, 2) /\ c.id = o
    BY <1>5, <1>7 DEF Keeps, Throws, Gets, nameVars
  <2>2. design \in Designs
    BY DEF Struct, StackOK
  <2>3. m = n /\ p.k = "instance" /\ p.of = c
    <3>1. Body(n)[i].of.id = c.id
      BY <1>2, <1>3, <2>1
    <3> QED BY <1>3, <2>2, <3>1, ComponentId
  <2>4. PICK d \in Elements(Netlist(m).comps) : Netlist(d.of).name = Netlist(c.of).name /\ d.of # c.of
    BY <1>7 DEF Clash
  <2>5. /\ c.of \in DOMAIN all_names /\ c.of \in DOMAIN design.netlists
        /\ d.of \in DOMAIN all_names /\ d.of \in DOMAIN design.netlists
    BY <1>1, <1>3, <2>3, ComponentsNamed
  <2>6. q = Netlist(c.of).name
    BY <1>2, <2>3 DEF AsksFor
  <2>7. o \in Objects \ DOMAIN all_names
    BY <1>4, <1>7, <2>1
  <2>8. occupied' # NoError
    <3>1. PICK a, b : a = c.of /\ b = d.of
      OBVIOUS
    <3>2. /\ a \in DOMAIN all_names /\ b \in DOMAIN all_names /\ a \in DOMAIN design.netlists
          /\ b \in DOMAIN design.netlists /\ a # b /\ q = Netlist(a).name /\ q = Netlist(b).name
      BY <2>4, <2>5, <2>6, <3>1
    <3> QED BY <1>3, <1>4, <2>7, <3>2, ClashThrows
  <2> QED BY <2>1, <2>8 DEF Gets
<1>8. ClashesUnnamed'
  BY <1>7, UnnamedStays
<1> QED
  BY <1>6, <1>8

(* And it is written, or not. *)
LEMMA ClashPart ==
  ASSUME Struct, ClashInv, InPart, Named, UNCHANGED design,
         NextOne.of.id \in Objects \ DOMAIN design.netlists, AsksFor(NextOne) \in Suggestions,
         NamedAs(AsksFor(NextOne), NextOne.of.id, FALSE),
         DOMAIN all_names \subseteq DOMAIN all_names',
         \/ UNCHANGED <<stack, written>>
         \/ occupied' = NoError /\ Goes /\ \E w : Adds(w) /\ w.k # "module"
  PROVE  ClashInv'
<1>1. Zeros' /\ Asked' /\ ClashesUnnamed'
  BY ClashNamed
<1>2. PICK t, n : t = Top /\ n = t.of
  OBVIOUS
<1>3. InBody /\ stack # << >> /\ Taken(t) \in Nat
  BY <1>2 DEF InPart
<1>4. WrittenOK
  BY DEF Struct
<1>5. Longer /\ Written("module")' = Written("module")
  BY <1>4, NoHeadAdded
<1>6. \A i \in 1 .. Taken(t) : Body(n)[i].of.id \in DOMAIN all_names'
  BY <1>2, <1>3 DEF ClashInv, PartsNamed
<1>7. Body(n)' = Body(n) /\ Taken(t)' = Taken(t) /\ \A f : Taken(f)' = Taken(f)
  BY Static
<1>8. CASE UNCHANGED <<stack, written>>
  <2>1. InBody' /\ Top' = t
    BY <1>2, <1>3, <1>8, SameTop
  <2>2. PartsNamed'
    <3>1. Taken(Top)' = Taken(t)
      BY <1>7, <2>1
    <3>2. Body(Top.of)' = Body(n)
      BY <1>2, <1>7, <2>1
    <3> QED BY <1>6, <3>1, <3>2 DEF PartsNamed
  <2>3. ClashStays'
    BY <1>2, <1>4, <1>5, <2>1, ClashGoesOn DEF ClashInv
  <2> QED BY <1>1, <2>2, <2>3 DEF ClashInv
<1>9. CASE occupied' = NoError /\ Goes
  <2>1. PICK f : /\ stack' # << >> /\ Top' = f /\ f.of = n /\ f.stage = "body"
                 /\ Taken(f) = Taken(t) + 1
    BY <1>2, <1>9 DEF Goes
  <2>2. InBody'
    BY <2>1 DEF InBody
  <2>3. PartsNamed'
    <3>1. Taken(Top)' = Taken(t) + 1
      BY <1>7, <2>1
    <3>2. Body(Top.of)' = Body(n)
      BY <1>7, <2>1
    <3>3. Body(n)[Taken(t) + 1].of.id \in DOMAIN all_names'
      <4>1. NextOne.of.id \in DOMAIN all_names'
        BY <1>9 DEF Named, Keeps, Throws, Gets, nameVars
      <4> QED BY <1>2, <4>1 DEF NextOne
    <3>4. \A i \in 1 .. Taken(t) + 1 : i \in 1 .. Taken(t) \/ i = Taken(t) + 1
      BY <1>3
    <3> QED BY <1>6, <3>1, <3>2, <3>3, <3>4 DEF PartsNamed
  <2>4. ClashStays'
    BY <1>2, <1>4, <1>5, <2>1, <2>2, ClashGoesOn DEF ClashInv
  <2> QED BY <1>1, <2>3, <2>4 DEF ClashInv
<1> QED
  BY <1>8, <1>9

(* serialize_declaration names no component. *)
LEMMA ClashDeclaration ==
  ASSUME Struct, ClashInv, serialize_declaration
  PROVE  ClashInv'
<1>1. stack # << >> /\ Top.stage = "body" /\ Top.todo # << >> /\ occupied = NoError
  BY DEF serialize_declaration, Next_, Running
<1>2. NextOne.of.id \in Objects \ DOMAIN design.netlists /\ AsksFor(NextOne) \in Suggestions
  BY <1>1, NextOneFacts
<1>3. /\ InPart /\ Named /\ UNCHANGED design /\ NextOne.k \in {"port", "net"}
      /\ NamedAs(AsksFor(NextOne), NextOne.of.id, FALSE)
      /\ DOMAIN all_names \subseteq DOMAIN all_names'
      /\ \/ Fails
         \/ /\ occupied' = NoError /\ Goes
            /\ Adds(Item(NextOne.k, Top.of, NextOne.of.id, all_names'[NextOne.of.id], << >>))
  BY DeclarationStep
<1>4. CASE Fails
  BY <1>2, <1>3, <1>4, ClashPart DEF Fails
<1>5. CASE ~ Fails
  <2>1. PICK w : w = Item(NextOne.k, Top.of, NextOne.of.id, all_names'[NextOne.of.id], << >>)
    OBVIOUS
  <2>2. w.k # "module"
    BY <1>3, <2>1 DEF Item
  <2>3. occupied' = NoError /\ Goes /\ Adds(w)
    BY <1>3, <1>5, <2>1
  <2> QED BY <1>2, <1>3, <2>2, <2>3, ClashPart
<1> QED
  BY <1>4, <1>5

(* serialize_component_instance throws for a component that clashes. *)
LEMMA ClashInstance ==
  ASSUME Struct, ClashInv, serialize_component_instance
  PROVE  ClashInv'
<1>1. stack # << >> /\ Top.stage = "body" /\ Top.todo # << >> /\ occupied = NoError
  BY DEF serialize_component_instance, Next_, Running
<1>2. NextOne.of.id \in Objects \ DOMAIN design.netlists /\ AsksFor(NextOne) \in Suggestions
  BY <1>1, NextOneFacts
<1>3. /\ InPart /\ Named /\ UNCHANGED design
      /\ NamedAs(AsksFor(NextOne), NextOne.of.id, FALSE)
      /\ DOMAIN all_names \subseteq DOMAIN all_names'
  BY InstanceStep
<1>4. \/ Fails
      \/ Crash /\ occupied' = NoError
      \/ /\ occupied' = NoError /\ Goes
         /\ \E text : /\ DOMAIN text = DOMAIN NextOne.of.conn
                      /\ \A p \in DOMAIN text : text[p].port = all_names[p]
                      /\ Adds(Item("instance", NextOne.of.of, NextOne.of.id, all_names[NextOne.of.of], text))
  BY InstanceStep
<1>5. CASE Fails \/ Crash
  BY <1>2, <1>3, <1>5, ClashPart DEF Fails, Crash
<1>6. CASE ~ Fails /\ ~ Crash
  <2>1. PICK text : Adds(Item("instance", NextOne.of.of, NextOne.of.id, all_names[NextOne.of.of], text))
    BY <1>4, <1>6
  <2>2. PICK w : w = Item("instance", NextOne.of.of, NextOne.of.id, all_names[NextOne.of.of], text)
    OBVIOUS
  <2>3. w.k # "module"
    BY <2>2 DEF Item
  <2>4. occupied' = NoError /\ Goes /\ Adds(w)
    BY <1>4, <1>6, <2>1, <2>2
  <2> QED BY <1>2, <1>3, <2>3, <2>4, ClashPart
<1> QED
  BY <1>5, <1>6

(* A module with a clash never comes to its end. *)
LEMMA ClashEnd ==
  ASSUME Struct, ClashInv, serialize_endmodule
  PROVE  ClashInv'
<1> USE DEF ClashInv
<1>1. /\ UNCHANGED <<design, all_names, asked, occupied>>
      /\ stack # << >> /\ InBody /\ Taken(Top) = Len(Body(Top.of)) /\ Top.of \in DOMAIN design.netlists
      /\ Len(items) = 2 /\ Len(items') = 1 /\ ~ InBody' /\ level_pop
      /\ \A o \in DOMAIN all_names : home'[o] = IF home[o] = 2 THEN 0 ELSE home[o]
      /\ Adds(Item("endmodule", Top.of, Top.of, all_names[Top.of], << >>))
  BY EndStep
<1>2. items'[1] = items[1] /\ cntrs'[1] = cntrs[1]
  <2>1. PICK s, t : s = items /\ t = cntrs
    OBVIOUS
  <2>2. s \in Seq(ItemMaps) /\ t \in Seq(CounterMaps) /\ Len(s) = 2 /\ Len(t) = 2
    BY <1>1, <2>1 DEF Struct, IInv, LevelsType
  <2>3. items' = SubSeq(s, 1, 1) /\ cntrs' = SubSeq(t, 1, 1)
    BY <1>1, <2>1, <2>2 DEF level_pop
  <2> QED BY <2>1, <2>2, <2>3
<1>3. Zeros'
  <2>1. occupied' = NoError => \A p \in DOMAIN cntrs'[1] : Zero(p) \in DOMAIN items'[1]
    BY <1>1, <1>2 DEF Zeros
  <2>2. Len(items') # 2
    BY <1>1
  <2>3. NoError' = NoError
    BY DEF NoError
  <2>4. (\A p \in DOMAIN cntrs[1] : Zero(p) \in DOMAIN items[1])' <=> \A p \in DOMAIN cntrs'[1] : Zero(p) \in DOMAIN items'[1]
    BY DEF Zero, Folded, WithNumber
  <2> QED BY <2>1, <2>2, <2>3, <2>4 DEF Zeros
<1>4. Asked'
  <2>1. \A o \in DOMAIN all_names : home'[o] = 1 /\ ~ EndsOpen(asked[o]) => Folded(asked[o]) \in DOMAIN items'[1]
    BY <1>1, <1>2 DEF Asked
  <2> QED BY <1>1, <2>1 DEF Asked, EndsOpen, Folded
<1>5. ClashesUnnamed'
  BY <1>1, UnnamedStays
<1>6. PartsNamed'
  BY <1>1 DEF PartsNamed
<1>7. PICK n : n = Top.of
  OBVIOUS
<1>8. NoClash(n)
  <2>1. SUFFICES ASSUME NEW c \in Elements(Netlist(n).comps), Clash(n, c) PROVE FALSE
    BY DEF NoClash
  <2>2. design \in Designs
    BY DEF Struct, StackOK
  <2>3. PICK j \in 1 .. Len(Body(n)) : Body(n)[j].of = c
    BY <1>1, <1>7, <2>2, ComponentPart
  <2>4. c.id \in DOMAIN all_names
    BY <1>1, <1>7, <2>3 DEF PartsNamed
  <2> QED BY <1>1, <1>7, <2>1, <2>4 DEF ClashesUnnamed
<1>9. ClashStays'
  <2>1. PICK w : w = Item("endmodule", Top.of, Top.of, all_names[Top.of], << >>)
    OBVIOUS
  <2>2. Adds(w) /\ w.k # "module" /\ WrittenOK
    BY <1>1, <2>1 DEF Item, Struct
  <2>3. Longer /\ Written("module")' = Written("module")
    BY <2>2, NoHeadAdded
  <2> QED BY <1>1, <1>7, <1>8, <2>2, <2>3, ClashGoesOn
<1> QED
  BY <1>3, <1>4, <1>5, <1>6, <1>9
-----------------------------------------------------------------------------
(* The initial states, and the steps of the whole serializer. *)

(* Struct holds when the serializer is called. *)
LEMMA StructInit ==
  ASSUME VerilogInit
  PROVE  Struct
<1>1. /\ Init /\ design \in Designs /\ stack = <<Frame(design.top)>> /\ written = << >>
  BY DEF VerilogInit
<1>2. IInv
  BY <1>1, InitHolds
<1>3. PICK f : f = Frame(design.top)
  OBVIOUS
<1>4. FrameOK(f) /\ f.of = design.top /\ Taken(f) = 0 /\ f.stage = "dependencies"
  <2>1. f = [of |-> design.top, stage |-> "dependencies", todo |-> SortedComponents(design.top)]
    BY <1>3 DEF Frame, dependencies
  <2>2. design.top \in DOMAIN design.netlists
    BY <1>1, DesignFacts
  <2>3. f.stage = "dependencies"
    BY <2>1
  <2> QED BY <1>1, <2>1, <2>2, <2>3, WholeFrame
<1>5. stack = <<f>> /\ stack \in Seq({f}) /\ Len(stack) = 1 /\ stack # << >> /\ stack[1] = f
  BY <1>1, <1>3
<1>6. Top = f
  BY <1>5 DEF Top, Last
<1>7. ~ InBody
  BY <1>4, <1>6 DEF InBody
<1>8. StackOK
  <2>1. Len(items) = 1
    BY <1>1 DEF Init
  <2>2. stack \in Seq(Elements(stack))
    BY <1>5, OwnElements
  <2>3. \A i \in 1 .. Len(stack) : FrameOK(stack[i])
    BY <1>4, <1>5
  <2>4. \A i \in 1 .. Len(stack) - 1 : FALSE
    BY <1>5
  <2> QED BY <1>1, <1>7, <2>1, <2>2, <2>3, <2>4 DEF StackOK
<1>9. WrittenOK
  BY <1>1 DEF WrittenOK
<1>10. Levels
  BY <1>1 DEF Init, Levels
<1>11. DependenciesFirst
  <2>1. \A i \in 1 .. Len(stack) - 1 : FALSE
    BY <1>5
  <2>2. Served(f, TRUE)
    <3>1. Delivered(f, TRUE) = 0
      BY <1>4 DEF Delivered
    <3>2. ASSUME NEW k \in 1 .. Delivered(f, TRUE) PROVE FALSE
      <4>1. k \in 1 .. 0
        BY <3>1, <3>2
      <4> QED BY <4>1
    <3> QED BY <3>2 DEF Served
  <2> QED BY <1>4, <1>6, <2>1, <2>2 DEF DependenciesFirst
<1> QED
  BY <1>2, <1>8, <1>9, <1>10, <1>11 DEF Struct

(* Struct is about these variables only. *)
LEMMA StructStutter ==
  ASSUME Struct, UNCHANGED <<nameVars, ioVars, textVars>>
  PROVE  Struct'
<1>1. UNCHANGED <<nameVars, design, stack, written>>
  BY DEF textVars
<1>2. UNCHANGED vars
  BY <1>1 DEF nameVars, vars
<1>3. IInv'
  BY <1>2, UnchangedStep DEF Struct
<1>4. Levels' /\ items' = items /\ all_names' = all_names
  BY <1>1, NamesUnchanged DEF Struct
<1>5. Top' = Top /\ (InBody' <=> InBody)
  BY <1>1, SameTop
<1>6. StackOK'
  <2>1. \A f, g : (FrameOK(f)' <=> FrameOK(f)) /\ (Waits(f, g)' <=> Waits(f, g))
    BY <1>1, Static
  <2>2. \A i \in 1 .. Len(stack) : FrameOK(stack[i])'
    BY <1>1, <2>1 DEF Struct, StackOK
  <2>3. \A i \in 1 .. Len(stack) - 1 : Waits(stack[i], stack[i + 1])'
    BY <1>1, <2>1 DEF Struct, StackOK
  <2>4. Len(items') = IF InBody' THEN 2 ELSE 1
    BY <1>4, <1>5 DEF Struct, StackOK
  <2>5. design' \in Designs /\ stack' \in Seq(Elements(stack'))
    BY <1>1 DEF Struct, StackOK
  <2> QED BY <1>1, <2>2, <2>3, <2>4, <2>5 DEF StackOK
<1>7. WrittenOK'
  BY <1>1 DEF Struct, WrittenOK, Elements
<1>8. DependenciesFirst'
  <2>1. Longer /\ WrittenOK
    BY <1>1 DEF Longer, Struct
  <2>2. ASSUME NEW f, NEW b, Served(f, b) PROVE Served(f, b)'
    BY <1>1, <1>4, <2>1, <2>2, ServedStays
  <2>3. \A i \in 1 .. Len(stack) - 1 : Served(stack[i], FALSE)'
    BY <1>1, <2>2 DEF Struct, DependenciesFirst
  <2>4. stack # << >> => Served(Top, TRUE)'
    <3>1. PICK t : t = Top
      OBVIOUS
    <3>2. stack # << >> => Served(t, TRUE)'
      BY <2>2, <3>1 DEF Struct, DependenciesFirst
    <3> QED BY <1>5, <3>1, <3>2
  <2>5. stack # << >> => (Top'.stage # "dependencies" => Top'.of \in DOMAIN all_names')
    BY <1>4, <1>5 DEF Struct, DependenciesFirst
  <2> QED BY <1>1, <2>3, <2>4, <2>5 DEF DependenciesFirst
<1> QED
  BY <1>3, <1>4, <1>6, <1>7, <1>8 DEF Struct

(* Every step keeps Struct. *)
LEMMA StructStep ==
  ASSUME Struct, VerilogNext
  PROVE  Struct'
BY DependencyStep, NameModuleStep, HeadStep, DeclarationStep, InstanceStep, EndStep DEF VerilogNext

(* ClashInv holds when the serializer is called. *)
LEMMA ClashInit ==
  ASSUME VerilogInit
  PROVE  ClashInv
<1>1. Init /\ written = << >>
  BY DEF VerilogInit
<1>2. Zeros
  BY <1>1 DEF Init, Zeros
<1>3. Asked
  BY <1>1 DEF Init, Asked
<1>4. ClashesUnnamed
  BY <1>1 DEF Init, ClashesUnnamed
<1>5. PartsNamed
  <2>1. Struct
    BY StructInit
  <2>2. Len(items) = 1
    BY <1>1 DEF Init
  <2>3. ~ InBody
    <3>1. Len(items) = IF InBody THEN 2 ELSE 1
      BY <2>1 DEF Struct, StackOK
    <3>2. CASE InBody
      BY <2>2, <3>1, <3>2
    <3> QED BY <3>2
  <2> QED BY <2>3 DEF PartsNamed
<1>6. ClashStays
  BY <1>1 DEF ClashStays, Written
<1> QED
  BY <1>2, <1>3, <1>4, <1>5, <1>6 DEF ClashInv

(* ClashInv is about these variables only. *)
LEMMA ClashStutter ==
  ASSUME Struct, ClashInv, UNCHANGED <<nameVars, ioVars, textVars>>
  PROVE  ClashInv'
<1> USE DEF ClashInv
<1>1. UNCHANGED <<nameVars, design, stack, written>>
  BY DEF textVars
<1>2. Top' = Top /\ (InBody' <=> InBody) /\ all_names' = all_names
  BY <1>1, SameTop DEF nameVars
<1>3. Zeros' /\ Asked'
  BY <1>1, ScopeSame
<1>4. ClashesUnnamed'
  BY <1>1, <1>2, UnnamedStays
<1>5. PartsNamed'
  <2>1. PICK t : t = Top
    OBVIOUS
  <2>2. Body(t.of)' = Body(t.of) /\ Taken(t)' = Taken(t)
    BY <1>1, Static
  <2>3. Body(Top.of)' = Body(t.of) /\ Taken(Top)' = Taken(t)
    BY <1>2, <2>1, <2>2
  <2> QED BY <1>2, <2>1, <2>3 DEF PartsNamed
<1>6. ClashStays'
  <2>1. Longer /\ WrittenOK /\ Written("module")' = Written("module")
    BY <1>1, NoHeadAdded DEF Struct
  <2>2. PICK n : n = Top.of
    OBVIOUS
  <2> QED BY <1>1, <1>2, <2>1, <2>2, ClashGoesOn
<1> QED
  BY <1>3, <1>4, <1>5, <1>6

(* Every step keeps ClashInv. *)
LEMMA ClashStep ==
  ASSUME Struct, ClashInv, VerilogNext
  PROVE  ClashInv'
BY ClashDependency, ClashNameModule, ClashHead, ClashDeclaration, ClashInstance, ClashEnd DEF VerilogNext

(* When nothing is left to do, no definition has components that clash. *)
LEMMA NoClashDone ==
  ASSUME Struct, ClashInv
  PROVE  SameNameNeverWritten
<1> SUFFICES ASSUME Done, NEW h \in Written("module"),
                    NEW c \in ToSet(Netlist(written[h].of).comps), NEW d \in ToSet(Netlist(written[h].of).comps),
                    Netlist(c.of).name = Netlist(d.of).name, c.of # d.of
             PROVE  FALSE
  BY DEF SameNameNeverWritten
<1>1. ~ InBody
  BY DEF Done, InBody
<1>2. PICK n : n = written[h].of
  OBVIOUS
<1>3. NoClash(n)
  BY <1>1, <1>2 DEF ClashInv, ClashStays
<1>4. c \in Elements(Netlist(n).comps) /\ d \in Elements(Netlist(n).comps)
  BY <1>2 DEF ToSet, Elements
<1> QED
  BY <1>3, <1>4 DEF NoClash, Clash
-----------------------------------------------------------------------------
(* TextInv is kept by every action. *)

(* The lines of a definition are a matter of the design. *)
LEMMA FitsStatic ==
  ASSUME UNCHANGED design
  PROVE  \A w, n, q : Fits(w, n, q)' <=> Fits(w, n, q)
<1>1. \A n : Body(n)' = Body(n)
  BY Static
<1> QED
  BY <1>1 DEF Fits

(* What InBlock says, with the places in range. *)
LEMMA BlockRange ==
  ASSUME WrittenOK, NEW i \in 1 .. Len(written), NEW h, InBlock(i, h)
  PROVE  /\ Len(written) \in Nat /\ h \in 1 .. Len(written) /\ h <= i /\ i - h \in Nat
         /\ written[h].k = "module"
         /\ \A l \in h + 1 .. i : written[l].k # "module"
         /\ Fits(written[i], written[h].of, i - h)
<1>1. Len(written) \in Nat /\ DOMAIN written = 1 .. Len(written)
  BY OwnElements DEF WrittenOK
<1> QED
  BY <1>1 DEF InBlock, Written

(* What was written stays in its definition. *)
LEMMA BlockStays ==
  ASSUME WrittenOK, Longer, UNCHANGED design, NEW i \in 1 .. Len(written), NEW h, InBlock(i, h)
  PROVE  InBlock(i, h)' /\ h \in 1 .. Len(written') /\ i \in 1 .. Len(written')
<1>1. /\ Len(written) \in Nat /\ Len(written') \in Nat /\ Len(written') >= Len(written)
      /\ \A l \in 1 .. Len(written) : written'[l] = written[l]
      /\ Written("module") \subseteq Written("module")'
  BY WrittenGrows
<1>2. /\ h \in 1 .. Len(written) /\ h <= i
      /\ \A l \in h + 1 .. i : written[l].k # "module"
      /\ Fits(written[i], written[h].of, i - h)
  BY BlockRange
<1>3. PICK v, n : v = written[i] /\ n = written[h].of
  OBVIOUS
<1>4. Fits(v, n, i - h)'
  BY <1>2, <1>3, FitsStatic
<1>5. written'[i] = v /\ written'[h].of = n
  BY <1>1, <1>2, <1>3
<1>6. \A l \in h + 1 .. i : written'[l].k # "module"
  BY <1>1, <1>2
<1>7. Fits(written[i], written[h].of, i - h)'
  BY <1>4, <1>5
<1> QED
  BY <1>1, <1>2, <1>6, <1>7 DEF InBlock

(* The definition of a line is the one that starts last. *)
LEMMA HeadOfBlock ==
  ASSUME WrittenOK, NEW i \in 1 .. Len(written), NEW h, InBlock(i, h)
  PROVE  /\ HeadOf(i) = h
         /\ \A l \in h .. i : l \in 1 .. Len(written) /\ HeadOf(l) = h
<1>1. /\ Len(written) \in Nat /\ h \in 1 .. Len(written) /\ h <= i
      /\ written[h].k = "module"
      /\ \A l \in h + 1 .. i : written[l].k # "module"
  BY BlockRange
<1>2. ASSUME NEW l \in h .. i PROVE l \in 1 .. Len(written) /\ HeadOf(l) = h
  <2>1. PICK S : S = {j \in Written("module") : j <= l}
    OBVIOUS
  <2>2. l \in 1 .. Len(written) /\ l \in Nat
    BY <1>1, <1>2
  <2>3. Written("module") = {j \in 1 .. Len(written) : written[j].k = "module"}
    BY OwnElements DEF Written, WrittenOK
  <2>4. S \in SUBSET (1 .. l) /\ h \in S /\ \A j \in S : j \notin h + 1 .. l
    BY <1>1, <1>2, <2>1, <2>2, <2>3
  <2>5. Max(S) \in S /\ \A k \in S : Max(S) >= k
    BY <2>2, <2>4, Greatest
  <2>6. Max(S) = h
    <3>1. PICK m : m = Max(S)
      OBVIOUS
    <3>2. m \in 1 .. l /\ m >= h /\ m \notin h + 1 .. l
      BY <2>4, <2>5, <3>1
    <3> QED BY <1>1, <2>2, <3>1, <3>2
  <2> QED BY <2>1, <2>2, <2>6 DEF HeadOf
<1>3. i \in h .. i
  BY <1>1
<1> QED
  BY <1>2, <1>3

(* The lines in front of a line of a definition are of that definition.    *)
LEMMA BlockWhole ==
  ASSUME WrittenOK, Blocks, NEW i \in 1 .. Len(written), NEW h, InBlock(i, h), NEW l \in h .. i
  PROVE  InBlock(l, h)
<1>1. l \in 1 .. Len(written) /\ HeadOf(l) = h
  BY HeadOfBlock
<1>2. PICK g \in 1 .. Len(written) : InBlock(l, g)
  BY <1>1 DEF Blocks
<1>3. HeadOf(l) = g
  BY <1>1, <1>2, HeadOfBlock
<1> QED
  BY <1>1, <1>2, <1>3

(* A definition that has ended has all parts of the body, under the names  *)
(* that they have.                                                         *)
LEMMA EndedHasParts ==
  ASSUME WrittenOK, Blocks, LineNames, design \in Designs, NEW j \in Written("endmodule"), NEW n, n = written[j].of,
         NEW q \in 1 .. Len(Body(n)), Body(n)[q].k # "instance"
  PROVE  /\ n \in DOMAIN design.netlists
         /\ Body(n)[q].of.id \in DOMAIN all_names
         /\ \E l \in HeadOf(j) .. j :
              /\ written[l].k = Body(n)[q].k /\ written[l].id = Body(n)[q].of.id
              /\ written[l].name = all_names[Body(n)[q].of.id]
<1>1. /\ j \in 1 .. Len(written) /\ written[j].k = "endmodule"
  BY OwnElements DEF Written, WrittenOK
<1>2. n \in DOMAIN design.netlists
  BY <1>1 DEF LineNames, LineNamed
<1>3. PICK h \in 1 .. Len(written) : InBlock(j, h)
  BY <1>1 DEF Blocks
<1>4. /\ h <= j /\ Fits(written[j], written[h].of, j - h) /\ Len(written) \in Nat /\ HeadOf(j) = h
  BY <1>1, <1>3, BlockRange, HeadOfBlock
<1>5. PICK m : m = written[h].of
  OBVIOUS
<1>6. m \in DOMAIN design.netlists
  <2>1. written[h].k = "module"
    BY <1>1, <1>3, BlockRange
  <2> QED BY <1>5, <2>1 DEF LineNames, LineNamed
<1>7. j - h = Len(Body(m)) + 1 /\ n = m
  <2>1. \A r \in 1 .. Len(Body(m)) : Body(m)[r].k # "endmodule"
    BY <1>6, PartOf
  <2> QED BY <1>1, <1>4, <1>5, <2>1 DEF Fits
<1>8. Len(Body(n)) \in Nat
  BY <1>2, BodyFacts, OwnElements
<1>9. PICK l : l = h + q
  OBVIOUS
<1>10. l \in h .. j /\ l \in 1 .. Len(written) /\ l - h = q
  BY <1>1, <1>4, <1>7, <1>8, <1>9
<1>11. InBlock(l, h)
  BY <1>1, <1>3, <1>10, BlockWhole
<1>12. Fits(written[l], n, q)
  <2>1. Fits(written[l], written[h].of, l - h)
    BY <1>10, <1>11, BlockRange
  <2> QED BY <1>5, <1>7, <1>10, <2>1
<1>13. written[l].k = Body(n)[q].k /\ written[l].id = Body(n)[q].of.id
  BY <1>8, <1>12 DEF Fits
<1>14. /\ written[l].id \in DOMAIN all_names /\ written[l].name = all_names[written[l].id]
  BY <1>10, <1>13 DEF LineNames, LineNamed
<1> QED
  BY <1>2, <1>4, <1>10, <1>13, <1>14

(* Its ports among them. *)
LEMMA EndedHasPorts ==
  ASSUME WrittenOK, Blocks, LineNames, design \in Designs, NEW j \in Written("endmodule"), NEW n, n = written[j].of,
         NEW x \in 1 .. Len(Netlist(n).ports), NEW p, p = Netlist(n).ports[x].id
  PROVE  /\ p \in DOMAIN all_names
         /\ \E l \in HeadOf(j) .. j :
              written[l].k = "port" /\ written[l].id = p /\ written[l].name = all_names[p]
<1>1. n \in DOMAIN design.netlists
  <2>1. /\ j \in 1 .. Len(written) /\ written[j].k = "endmodule"
    BY OwnElements DEF Written, WrittenOK
  <2> QED BY <2>1 DEF LineNames, LineNamed
<1>2. PICK q \in 1 .. Declarations(n) : Body(n)[q].k = "port" /\ Body(n)[q].of = Netlist(n).ports[x]
  BY <1>1, BodyFacts
<1>3. q \in 1 .. Len(Body(n))
  <2>1. /\ SortedComponents(n) \in Seq(Elements(Netlist(n).comps)) /\ Declarations(n) \in Nat
        /\ Len(Body(n)) = Declarations(n) + Len(SortedComponents(n))
    BY <1>1, BodyFacts
  <2>2. Len(SortedComponents(n)) \in Nat
    BY <2>1, OwnElements
  <2> QED BY <2>1, <2>2
<1>4. Body(n)[q].of.id = p /\ Body(n)[q].k # "instance"
  BY <1>2
<1>5. /\ Body(n)[q].of.id \in DOMAIN all_names
      /\ \E l \in HeadOf(j) .. j :
              /\ written[l].k = Body(n)[q].k /\ written[l].id = Body(n)[q].of.id
              /\ written[l].name = all_names[Body(n)[q].of.id]
  BY <1>3, <1>4, EndedHasParts
<1> QED
  BY <1>2, <1>4, <1>5
-----------------------------------------------------------------------------
NamesGrow ==
  DOMAIN all_names \subseteq DOMAIN all_names' /\ \A o \in DOMAIN all_names : all_names'[o] = all_names[o]

(* A line keeps its names. *)
LEMMA LineNamedStays ==
  ASSUME UNCHANGED design, NamesGrow, NEW w, LineNamed(w)
  PROVE  LineNamed(w)'
<1>1. \A n : Netlist(n)' = Netlist(n)
  BY Static
<1> QED
  BY <1>1 DEF LineNamed, NamesGrow

(* A step that writes a line, or none. *)
LEMMA LinesStep ==
  ASSUME WrittenOK, Lines, UNCHANGED design, NamesGrow,
         \/ written' = written
         \/ \E w : /\ Adds(w) /\ LineNamed(w)'
                   /\ w.k = "instance" => \E j \in Written("endmodule") : written[j].of = w.of
                   /\ \E h \in 1 .. Len(written') : InBlock(Len(written), h)'
  PROVE  Lines'
<1>1. Longer
  BY DEF Longer
<1>2. PICK l \in Nat : l = Len(written)
  BY <1>1, WrittenGrows
<1>3. /\ Len(written') \in Nat /\ Len(written') >= l
      /\ \A i \in 1 .. l : written'[i] = written[i]
      /\ Written("endmodule") \subseteq Written("endmodule")'
      /\ Written("endmodule") \subseteq 1 .. l
  BY <1>1, <1>2, WrittenGrows
<1>4. ASSUME NEW i \in 1 .. l PROVE \E h \in 1 .. Len(written') : InBlock(i, h)'
  <2>1. PICK h : InBlock(i, h)
    BY <1>2 DEF Lines, Blocks
  <2> QED BY <1>1, <1>2, <2>1, BlockStays
<1>5. ASSUME NEW i, NEW m, EndedBefore(i, m) PROVE EndedBefore(i, m)'
  BY <1>3, <1>5 DEF EndedBefore
<1>6. ASSUME NEW i \in 1 .. l PROVE (LineNamed(written[i]) /\ (written[i].k = "instance" => EndedBefore(i, written[i].of)))'
  <2>1. PICK v : v = written[i]
    OBVIOUS
  <2>2. LineNamed(v) /\ (v.k = "instance" => EndedBefore(i, v.of))
    BY <1>2, <2>1 DEF Lines, LineNames
  <2>3. LineNamed(v)' /\ (v.k = "instance" => EndedBefore(i, v.of)')
    BY <1>5, <2>2, LineNamedStays
  <2>4. written'[i] = v
    BY <1>3, <2>1
  <2> QED BY <2>3, <2>4
<1>7. CASE written' = written
  <2>1. Len(written') = l
    BY <1>2, <1>7
  <2> QED BY <1>4, <1>6, <2>1 DEF Lines, Blocks, LineNames
<1>8. ASSUME NEW w, Adds(w), LineNamed(w)',
             w.k = "instance" => \E j \in Written("endmodule") : written[j].of = w.of,
             \E h \in 1 .. Len(written') : InBlock(Len(written), h)'
      PROVE  Lines'
  <2>1. Len(written') = l + 1 /\ written'[l + 1] = w
    BY <1>2, <1>8 DEF Adds
  <2>2. \A i \in 1 .. l + 1 : i \in 1 .. l \/ i = l + 1
    BY <1>2
  <2>3. PICK m : m = l + 1
    OBVIOUS
  <2>4. (LineNamed(written[m]) /\ (written[m].k = "instance" => EndedBefore(m, written[m].of)))'
    <3>1. written'[m] = w
      BY <2>1, <2>3
    <3>2. w.k = "instance" => EndedBefore(m, w.of)'
      <4> SUFFICES ASSUME w.k = "instance" PROVE EndedBefore(m, w.of)'
        OBVIOUS
      <4>1. PICK j \in Written("endmodule") : written[j].of = w.of
        BY <1>8
      <4>2. j \in 1 .. l /\ written'[j].of = w.of /\ j < m /\ j \in Written("endmodule")'
        BY <1>2, <1>3, <2>3, <4>1
      <4> QED BY <4>2 DEF EndedBefore
    <3> QED BY <1>8, <3>1, <3>2
  <2>5. \E h \in 1 .. Len(written') : InBlock(m, h)'
    BY <1>8, <2>1, <2>3
  <2>6. Blocks'
    BY <1>4, <2>1, <2>2, <2>3, <2>5 DEF Blocks
  <2>7. LineNames'
    BY <1>6, <2>1, <2>2, <2>3, <2>4 DEF LineNames
  <2> QED BY <2>6, <2>7 DEF Lines
<1> QED
  BY <1>7, <1>8

(* The next line of the definition that is being written.                  *)
LEMMA NextLine ==
  ASSUME WrittenOK, BodyOpen, InBody, UNCHANGED design, NEW w, Adds(w), w.k # "module",
         Taken(Top) \in Nat, Fits(w, Top.of, Taken(Top) + 1)
  PROVE  \E h \in 1 .. Len(written) :
           /\ h \in 1 .. Len(written') /\ InBlock(Len(written), h)'
           /\ written'[h].of = Top.of /\ Len(written') - h = Taken(Top) + 1
<1>1. Longer
  BY DEF Longer
<1>2. PICK l \in Nat : l = Len(written)
  BY <1>1, WrittenGrows
<1>3. /\ Len(written') = l + 1 /\ written'[l + 1] = w
      /\ \A i \in 1 .. l : written'[i] = written[i]
      /\ Written("module") \subseteq Written("module")'
  BY <1>1, <1>2, WrittenGrows DEF Adds
<1>4. PICK h \in 1 .. l : Current(h)
  BY <1>2 DEF BodyOpen
<1>5. PICK n, q : n = Top.of /\ q = Taken(Top) + 1
  OBVIOUS
<1>6. InBlock(l, h) /\ written[h].of = n /\ l - h = q - 1 /\ q \in Nat
  BY <1>2, <1>4, <1>5 DEF Current
<1>7. l \in 1 .. l
  BY <1>2, <1>4
<1>8. h \in Written("module") /\ \A x \in h + 1 .. l : written[x].k # "module"
  BY <1>6 DEF InBlock
<1>9. \A x \in h + 1 .. l + 1 : written'[x].k # "module"
  <2> SUFFICES ASSUME NEW x \in h + 1 .. l + 1 PROVE written'[x].k # "module"
    OBVIOUS
  <2>1. CASE x = l + 1
    BY <1>3, <2>1
  <2>2. CASE x # l + 1
    <3>1. x \in h + 1 .. l /\ x \in 1 .. l
      BY <1>2, <1>4, <2>2
    <3> QED BY <1>3, <1>8, <3>1
  <2> QED BY <2>1, <2>2
<1>10. l + 1 - h = q
  BY <1>2, <1>4, <1>6
<1>11. Fits(w, n, q)'
  BY <1>5, FitsStatic
<1>12. PICK m : m = l + 1
  OBVIOUS
<1>13. InBlock(m, h)'
  <2>1. h \in Written("module")' /\ h <= m
    BY <1>2, <1>3, <1>4, <1>8, <1>12
  <2>2. written'[m] = w /\ written'[h].of = n /\ m - h = q
    BY <1>3, <1>4, <1>6, <1>10, <1>12
  <2>3. Fits(written[m], written[h].of, m - h)'
    BY <1>11, <2>2
  <2> QED BY <1>9, <1>12, <2>1, <2>3 DEF InBlock
<1>14. h \in 1 .. Len(written')
  BY <1>2, <1>3, <1>4
<1>15. InBlock(Len(written), h)'
  <2>1. Len(written') = m
    BY <1>3, <1>12
  <2> QED BY <1>13, <2>1
<1>16. written'[h].of = Top.of /\ Len(written') - h = Taken(Top) + 1
  BY <1>3, <1>4, <1>5, <1>6, <1>10
<1> QED
  BY <1>2, <1>4, <1>14, <1>15, <1>16

(* Outside of bodies. *)
LEMMA TextOutside ==
  ASSUME WrittenOK, TextInv, UNCHANGED <<design, written>>, NamesGrow, ~ InBody'
  PROVE  TextInv'
<1>1. Lines'
  BY LinesStep DEF TextInv
<1>2. BodyOpen'
  BY DEF BodyOpen
<1> QED
  BY <1>1, <1>2 DEF TextInv

(* Where nothing but names changes. *)
LEMMA TextStays ==
  ASSUME WrittenOK, TextInv, UNCHANGED <<design, written, stack>>, NamesGrow
  PROVE  TextInv'
<1>1. Lines'
  BY LinesStep DEF TextInv
<1>2. PICK t : t = Top
  OBVIOUS
<1>3. Top' = t /\ (InBody' <=> InBody)
  BY <1>2, SameTop
<1>4. ASSUME InBody PROVE \E h \in 1 .. Len(written) : Current(h)'
  <2>1. PICK h \in 1 .. Len(written) : Current(h)
    BY <1>4 DEF TextInv, BodyOpen
  <2>2. /\ InBlock(Len(written), h) /\ written[h].of = t.of /\ Len(written) - h = Taken(t)
        /\ Len(written) \in 1 .. Len(written)
    <3>1. Len(written) \in Nat
      BY OwnElements DEF WrittenOK
    <3> QED BY <1>2, <2>1, <3>1 DEF Current
  <2>3. Longer
    BY DEF Longer
  <2>4. PICK l : l = Len(written)
    OBVIOUS
  <2>5. InBlock(l, h)' /\ h \in 1 .. Len(written')
    BY <2>2, <2>3, <2>4, BlockStays
  <2>6. Taken(Top)' = Taken(t)
    BY <1>3, Static
  <2>7. InBlock(Len(written), h)'
    BY <2>4, <2>5
  <2> QED BY <1>3, <2>2, <2>5, <2>6, <2>7 DEF Current
<1>5. BodyOpen'
  BY <1>3, <1>4 DEF BodyOpen
<1> QED
  BY <1>1, <1>5 DEF TextInv

(* TextInv is about these variables only. *)
LEMMA TextStutter ==
  ASSUME Struct, TextInv, UNCHANGED <<nameVars, ioVars, textVars>>
  PROVE  TextInv'
BY TextStays DEF Struct, textVars, nameVars, NamesGrow

(* serialize_dependency writes nothing. *)
LEMMA TextDependency ==
  ASSUME Struct, TextInv, serialize_dependency
  PROVE  TextInv'
<1>1. UNCHANGED <<nameVars, design, written>>
  BY DEF serialize_dependency
<1>2. PICK f : Top' = f /\ f.stage = "dependencies"
  BY DependencyStep
<1>3. ~ InBody'
  BY <1>2 DEF InBody
<1>4. NamesGrow
  BY <1>1 DEF nameVars, NamesGrow
<1> QED
  BY <1>1, <1>3, <1>4, TextOutside DEF Struct

(* Naming an object takes no name from another one. *)
LEMMA GrowsFacts ==
  ASSUME NEW obj, NEW n, NEW l, Keeps(obj) \/ Throws(obj) \/ Gets(obj, n, l)
  PROVE  NamesGrow
BY DEF Keeps, Throws, Gets, nameVars, NamesGrow

(* name_module writes nothing. *)
LEMMA TextNameModule ==
  ASSUME Struct, TextInv, name_module
  PROVE  TextInv'
<1>1. UNCHANGED <<design, written>>
  BY DEF name_module
<1>2. /\ Keeps(Top.of) \/ Throws(Top.of) \/ Gets(Top.of, Netlist(Top.of).name, 1)
      /\ stack' = stack \/ Top'.stage = "head"
  BY NameModuleStep
<1>3. NamesGrow
  BY <1>2, GrowsFacts
<1>4. CASE stack' = stack
  BY <1>1, <1>3, <1>4, TextStays DEF Struct
<1>5. CASE Top'.stage = "head"
  <2>1. ~ InBody'
    BY <1>5 DEF InBody
  <2> QED BY <1>1, <1>3, <2>1, TextOutside DEF Struct
<1> QED
  BY <1>2, <1>4, <1>5

(* serialize_module_head begins a definition. *)
LEMMA TextHead ==
  ASSUME Struct, TextInv, serialize_module_head
  PROVE  TextInv'
<1>1. PICK w, n : w = Item("module", n, n, all_names[n], << >>) /\ n = Top.of
  OBVIOUS
<1>2. /\ UNCHANGED <<design, all_names>> /\ Adds(w)
      /\ n \in DOMAIN all_names /\ n \in DOMAIN design.netlists
  BY <1>1, HeadStep
<1>3. PICK f : /\ stack' # << >> /\ Top' = f /\ f.of = n /\ f.stage = "body" /\ Taken(f) = 0
  BY <1>1, HeadStep
<1>4. w.k = "module" /\ w.of = n /\ w.id = n /\ w.name = all_names[n]
  BY <1>1 DEF Item
<1>5. WrittenOK /\ Longer
  BY <1>2 DEF Struct, Longer
<1>6. PICK l \in Nat : l = Len(written)
  BY <1>5, WrittenGrows
<1>7. Len(written') = l + 1 /\ written'[l + 1] = w
  BY <1>2, <1>6 DEF Adds
<1>8. PICK m : m = l + 1
  OBVIOUS
<1>9. m \in 1 .. Len(written') /\ written'[m] = w /\ m = Len(written')
  BY <1>6, <1>7, <1>8
<1>10. InBlock(m, m)'
  <2>1. m \in Written("module")'
    BY <1>4, <1>5, <1>9, WrittenGrows
  <2>2. Fits(w, n, 0)
    BY <1>4 DEF Fits
  <2>3. Fits(w, n, 0)'
    BY <1>2, <2>2, FitsStatic
  <2>4. m - m = 0 /\ m <= m /\ \A x \in m + 1 .. m : FALSE
    BY <1>6, <1>8
  <2>5. Fits(written[m], written[m].of, m - m)'
    BY <1>4, <1>9, <2>3, <2>4
  <2> QED BY <2>1, <2>4, <2>5 DEF InBlock
<1>11. InBlock(Len(written), m)'
  BY <1>9, <1>10
<1>12. Lines'
  <2>1. NamesGrow
    BY <1>2 DEF NamesGrow
  <2>2. LineNamed(w)
    BY <1>2, <1>4 DEF LineNamed
  <2>3. LineNamed(w)'
    BY <1>2, <2>1, <2>2, LineNamedStays
  <2>4. w.k # "instance"
    BY <1>4
  <2> QED BY <1>2, <1>5, <1>9, <1>11, <2>1, <2>3, <2>4, LinesStep DEF TextInv
<1>13. BodyOpen'
  <2>1. Taken(Top)' = 0
    <3>1. Taken(f)' = 0
      BY <1>2, <1>3, Static
    <3> QED BY <1>3, <3>1
  <2>2. Len(written') - m = 0
    BY <1>6, <1>8, <1>9
  <2>3. Current(m)'
    BY <1>3, <1>4, <1>9, <1>11, <2>1, <2>2 DEF Current
  <2> QED BY <1>9, <2>3 DEF BodyOpen
<1> QED
  BY <1>12, <1>13 DEF TextInv

(* A part of the body is written. *)
LEMMA TextPart ==
  ASSUME WrittenOK, TextInv, UNCHANGED design, InPart, NamesGrow, Goes, NEW w, Adds(w), NEW p, p = NextOne,
         w.k = p.k, w.k # "module", w.id = p.of.id, w.k = "instance" => w.of = p.of.of,
         LineNamed(w)', w.k = "instance" => \E j \in Written("endmodule") : written[j].of = w.of
  PROVE  TextInv'
<1>1. PICK n, q : n = Top.of /\ q = Taken(Top) + 1
  OBVIOUS
<1>2. InBody /\ Taken(Top) \in Nat /\ q \in 1 .. Len(Body(n)) /\ p = Body(n)[q]
  BY <1>1 DEF InPart, NextOne
<1>3. Fits(w, n, q)
  BY <1>2 DEF Fits
<1>4. PICK h \in 1 .. Len(written) :
        /\ h \in 1 .. Len(written') /\ InBlock(Len(written), h)'
        /\ written'[h].of = n /\ Len(written') - h = q
  BY <1>1, <1>2, <1>3, NextLine DEF TextInv
<1>5. Lines'
  BY <1>4, LinesStep DEF TextInv
<1>6. PICK f : Top' = f /\ f.of = n /\ Taken(f) = q
  BY <1>1 DEF Goes
<1>7. Taken(Top)' = q
  <2>1. Taken(f)' = q
    BY <1>6, Static
  <2> QED BY <1>6, <2>1
<1>8. Current(h)'
  BY <1>4, <1>6, <1>7 DEF Current
<1>9. BodyOpen'
  BY <1>4, <1>8 DEF BodyOpen
<1> QED
  BY <1>5, <1>9 DEF TextInv

(* serialize_declaration goes on with the definition. *)
LEMMA TextDeclaration ==
  ASSUME Struct, TextInv, serialize_declaration
  PROVE  TextInv'
<1>1. PICK w, p : w = Item(p.k, Top.of, p.of.id, all_names'[p.of.id], << >>) /\ p = NextOne
  OBVIOUS
<1>2. /\ InPart /\ Named /\ UNCHANGED design /\ p.k \in {"port", "net"}
      /\ Fails \/ (occupied' = NoError /\ Goes /\ Adds(w))
  BY <1>1, DeclarationStep
<1>3. WrittenOK
  BY DEF Struct
<1>4. NamesGrow
  BY <1>2, GrowsFacts DEF Named
<1>5. CASE Fails
  BY <1>2, <1>3, <1>4, <1>5, TextStays DEF Fails
<1>6. CASE occupied' = NoError /\ Goes /\ Adds(w)
  <2>1. w.k = p.k /\ w.id = p.of.id /\ w.name = all_names'[p.of.id]
    BY <1>1 DEF Item
  <2>2. p.of.id \in DOMAIN all_names'
    BY <1>1, <1>2, <1>6 DEF Named, Keeps, Throws, Gets, nameVars
  <2>3. w.k \notin {"instance", "module", "endmodule"}
    BY <1>2, <2>1
  <2>4. LineNamed(w)'
    BY <2>1, <2>2, <2>3 DEF LineNamed
  <2> QED BY <1>1, <1>2, <1>3, <1>4, <1>6, <2>1, <2>3, <2>4, TextPart
<1> QED
  BY <1>2, <1>5, <1>6

(* serialize_component_instance goes on with the definition: the module it *)
(* names is there.                                                         *)
LEMMA TextInstance ==
  ASSUME Struct, TextInv, serialize_component_instance
  PROVE  TextInv'
<1>1. PICK p, c : p = NextOne /\ c = p.of
  OBVIOUS
<1>2. /\ InPart /\ Named /\ UNCHANGED design /\ p.k = "instance"
      /\ \/ Fails
         \/ Crash /\ occupied' = NoError
         \/ /\ occupied' = NoError /\ Goes
            /\ \E text : /\ DOMAIN text = DOMAIN c.conn
                         /\ \A r \in DOMAIN text : text[r].port = all_names[r]
                         /\ Adds(Item("instance", c.of, c.id, all_names[c.of], text))
  BY <1>1, InstanceStep
<1>3. WrittenOK /\ design \in Designs
  BY DEF Struct, StackOK
<1>4. NamesGrow
  BY <1>2, GrowsFacts DEF Named
<1>5. CASE Fails \/ Crash
  BY <1>2, <1>3, <1>4, <1>5, TextStays DEF Fails, Crash
<1>6. CASE ~ Fails /\ ~ Crash
  <2>1. PICK text : /\ DOMAIN text = DOMAIN c.conn
                    /\ \A r \in DOMAIN text : text[r].port = all_names[r]
                    /\ Adds(Item("instance", c.of, c.id, all_names[c.of], text))
    BY <1>2, <1>6
  <2>2. PICK w : w = Item("instance", c.of, c.id, all_names[c.of], text)
    OBVIOUS
  <2>3. /\ w.k = "instance" /\ w.of = c.of /\ w.id = c.id /\ w.name = all_names[c.of] /\ w.conn = text
        /\ Adds(w)
    BY <2>1, <2>2 DEF Item
  <2>4. PICK n, q : n = Top.of /\ q = Taken(Top) + 1
    OBVIOUS
  <2>5. /\ n \in DOMAIN design.netlists /\ q \in 1 .. Len(Body(n)) /\ p = Body(n)[q] /\ InBody
    BY <1>1, <1>2, <2>4 DEF InPart, NextOne
  <2>6. c \in Elements(Netlist(n).comps)
    BY <1>1, <1>2, <1>3, <2>5, PartOf
  <2>7. c.of \in DOMAIN all_names /\ c.of \in DOMAIN design.netlists /\ Settled(c.of)
    BY <2>4, <2>5, <2>6, ComponentsNamed
  <2>8. PICK j \in Written("endmodule") : written[j].of = c.of
    BY <2>7 DEF Settled
  <2>9. ASSUME NEW r \in DOMAIN text
        PROVE  /\ r \in DOMAIN all_names
               /\ \E x \in 1 .. Len(Netlist(c.of).ports) : Netlist(c.of).ports[x].id = r
    <3>1. PICK x \in 1 .. Len(Netlist(c.of).ports) : Netlist(c.of).ports[x].id = r
      <4>1. PICK m : m = c.of
        OBVIOUS
      <4>2. PICK i \in 1 .. Len(Netlist(n).comps) : c = Netlist(n).comps[i]
        BY <1>3, <2>5, <2>6, Sorted, OwnElements DEF Elements
      <4>3. DOMAIN Netlist(n).comps = 1 .. Len(Netlist(n).comps) /\ DOMAIN Netlist(m).ports = 1 .. Len(Netlist(m).ports)
        BY <1>3, <2>5, <2>7, <4>1, Sorted, OwnElements
      <4>4. r \in DOMAIN c.conn
        BY <2>1, <2>9
      <4>5. \E x \in DOMAIN Netlist(m).ports : Netlist(m).ports[x].id = r
        BY <1>3, <2>5, <4>1, <4>2, <4>3, <4>4, DesignFacts
      <4> QED BY <4>1, <4>3, <4>5
    <3>2. r \in DOMAIN all_names
      BY <1>3, <2>8, <3>1, EndedHasPorts DEF TextInv, Lines
    <3> QED BY <3>1, <3>2
  <2>10. LineNamed(w)
    BY <2>1, <2>3, <2>7, <2>9 DEF LineNamed
  <2>11. LineNamed(w)'
    BY <1>2, <1>4, <2>10, LineNamedStays
  <2>12. \E i \in Written("endmodule") : written[i].of = w.of
    BY <2>3, <2>8
  <2>13. w.k = p.k /\ w.k # "module" /\ w.id = p.of.id /\ w.of = p.of.of
    BY <1>1, <1>2, <2>3
  <2>14. Goes
    BY <1>2, <1>6
  <2> QED BY <1>1, <1>2, <1>3, <1>4, <2>3, <2>11, <2>12, <2>13, <2>14, TextPart
<1> QED
  BY <1>5, <1>6

(* serialize_endmodule ends the definition. *)
LEMMA TextEnd ==
  ASSUME Struct, TextInv, serialize_endmodule
  PROVE  TextInv'
<1>1. PICK w, n : w = Item("endmodule", n, n, all_names[n], << >>) /\ n = Top.of
  OBVIOUS
<1>2. /\ UNCHANGED <<design, all_names>> /\ Adds(w) /\ InBody /\ ~ InBody'
      /\ n \in DOMAIN all_names /\ n \in DOMAIN design.netlists /\ Taken(Top) = Len(Body(n))
  BY <1>1, EndStep
<1>3. w.k = "endmodule" /\ w.of = n /\ w.id = n /\ w.name = all_names[n]
  BY <1>1 DEF Item
<1>4. WrittenOK /\ Longer /\ design \in Designs
  BY <1>2 DEF Struct, StackOK, Longer
<1>5. Fits(w, n, Taken(Top) + 1) /\ Taken(Top) \in Nat
  <2>1. Len(Body(n)) \in Nat
    BY <1>2, <1>4, BodyFacts, OwnElements
  <2> QED BY <1>2, <1>3, <2>1 DEF Fits
<1>6. PICK h \in 1 .. Len(written) : h \in 1 .. Len(written') /\ InBlock(Len(written), h)'
  BY <1>1, <1>2, <1>3, <1>4, <1>5, NextLine DEF TextInv
<1>7. NamesGrow
  BY <1>2 DEF NamesGrow
<1>8. LineNamed(w)'
  <2>1. LineNamed(w)
    BY <1>2, <1>3 DEF LineNamed
  <2> QED BY <1>2, <1>7, <2>1, LineNamedStays
<1>9. Lines'
  BY <1>2, <1>3, <1>4, <1>6, <1>7, <1>8, LinesStep DEF TextInv
<1> QED
  BY <1>2, <1>9 DEF TextInv, BodyOpen
-----------------------------------------------------------------------------
(* PartsInv is kept by every action. *)

(* The parts of a body are a matter of the design. *)
LEMMA PartStatic ==
  ASSUME UNCHANGED design
  PROVE  \A n : Body(n)' = Body(n) /\ \A i : PartId(n, i)' = PartId(n, i)
BY Static DEF PartId

(* The names of parts do not change. *)
LEMMA DistinctStays ==
  ASSUME PartsDistinct, UNCHANGED design, NamesGrow,
         \A n \in DOMAIN design.netlists : \A i \in 1 .. Len(Body(n)) :
           PartId(n, i) \in DOMAIN all_names' => PartId(n, i) \in DOMAIN all_names
  PROVE  PartsDistinct'
<1>1. ASSUME NEW n \in DOMAIN design.netlists, NEW i \in 1 .. Len(Body(n)), NEW j \in 1 .. Len(Body(n)), i # j,
             PartId(n, i) \in DOMAIN all_names', PartId(n, j) \in DOMAIN all_names'
      PROVE  all_names'[PartId(n, i)] # all_names'[PartId(n, j)]
  BY <1>1 DEF PartsDistinct, NamesGrow
<1>2. \A n : Body(n)' = Body(n) /\ \A i : PartId(n, i)' = PartId(n, i)
  BY PartStatic
<1> QED
  BY <1>1, <1>2 DEF PartsDistinct

(* The parts of a body stay as they are. *)
LEMMA WholeStays ==
  ASSUME UNCHANGED design, NEW n,
         DOMAIN all_names \subseteq DOMAIN all_names'
  PROVE  Whole(n) => Whole(n)'
BY PartStatic DEF Whole

(* A step that names no part of n. *)
LEMMA NoneStays ==
  ASSUME UNCHANGED design, NEW n,
         \A i \in 1 .. Len(Body(n)) : PartId(n, i) \in DOMAIN all_names' => PartId(n, i) \in DOMAIN all_names
  PROVE  None(n) => None(n)'
BY PartStatic DEF None

(* Outside of bodies netlists get names, and no part does.                 *)
LEMMA PartsOutside ==
  ASSUME Struct, PartsInv, ~ InBody, UNCHANGED design, failed' = failed, NamesGrow,
         \A o \in DOMAIN all_names' : o \in DOMAIN all_names \/ o \in DOMAIN design.netlists
  PROVE  PartsInv'
<1>1. design \in Designs
  BY DEF Struct, StackOK
<1>2. ASSUME NEW n \in DOMAIN design.netlists, NEW i \in 1 .. Len(Body(n)), PartId(n, i) \in DOMAIN all_names'
      PROVE  PartId(n, i) \in DOMAIN all_names
  <2>1. PartId(n, i) \notin DOMAIN design.netlists
    BY <1>1, BodyIds DEF PartId
  <2> QED BY <1>2, <2>1
<1>3. PartsDistinct'
  BY <1>2, DistinctStays DEF PartsInv
<1>4. ASSUME ~ failed, NEW n \in DOMAIN design.netlists PROVE Whole(n)' \/ None(n)'
  <2>1. Whole(n) \/ None(n)
    BY <1>4 DEF PartsInv, PartsInOrder, Partly
  <2>2. Whole(n) => Whole(n)'
    BY WholeStays DEF NamesGrow
  <2>3. None(n) => None(n)'
    BY <1>2, NoneStays
  <2> QED BY <2>1, <2>2, <2>3
<1>5. PartsInOrder'
  BY <1>4 DEF PartsInOrder
<1> QED
  BY <1>3, <1>5 DEF PartsInv

(* serialize_dependency gives no name. *)
LEMMA PartsDependency ==
  ASSUME Struct, PartsInv, serialize_dependency
  PROVE  PartsInv'
<1>1. UNCHANGED <<nameVars, design, failed>> /\ Top.stage = "dependencies"
  BY DEF serialize_dependency
<1>2. ~ InBody
  BY <1>1 DEF InBody
<1>3. NamesGrow /\ all_names' = all_names
  BY <1>1 DEF nameVars, NamesGrow
<1> QED
  BY <1>1, <1>2, <1>3, PartsOutside

(* name_module names a netlist, which is no part. *)
LEMMA PartsNameModule ==
  ASSUME Struct, PartsInv, name_module
  PROVE  PartsInv'
<1>1. UNCHANGED <<design, failed>>
  BY DEF name_module
<1>2. /\ Keeps(Top.of) \/ Throws(Top.of) \/ Gets(Top.of, Netlist(Top.of).name, 1)
      /\ Top.stage = "dependencies" /\ Top.of \in DOMAIN design.netlists
  BY NameModuleStep
<1>3. NamesGrow
  BY <1>2, GrowsFacts
<1>4. ~ InBody
  BY <1>2 DEF InBody
<1>5. \A o \in DOMAIN all_names' : o \in DOMAIN all_names \/ o \in DOMAIN design.netlists
  BY <1>2 DEF Keeps, Throws, Gets, nameVars
<1> QED
  BY <1>1, <1>3, <1>4, <1>5, PartsOutside

(* serialize_module_head begins a body whose parts are named all, or not   *)
(* at all.                                                                 *)
LEMMA PartsHead ==
  ASSUME Struct, PartsInv, serialize_module_head
  PROVE  PartsInv'
<1>1. ~ InBody /\ UNCHANGED <<design, all_names>>
  BY HeadStep
<1>2. failed' = failed /\ NamesGrow
  BY <1>1 DEF serialize_module_head, NamesGrow
<1> QED
  BY <1>1, <1>2, PartsOutside

(* serialize_endmodule leaves a body whose parts are named all. *)
LEMMA PartsEnd ==
  ASSUME Struct, PartsInv, serialize_endmodule
  PROVE  PartsInv'
<1>1. /\ UNCHANGED <<design, all_names>> /\ InBody /\ Taken(Top) = Len(Body(Top.of)) /\ failed' = failed
      /\ Top.of \in DOMAIN design.netlists
  BY EndStep DEF serialize_endmodule
<1>2. NamesGrow
  BY <1>1 DEF NamesGrow
<1>3. PartsDistinct'
  BY <1>1, <1>2, DistinctStays DEF PartsInv
<1>4. ASSUME ~ failed, NEW n \in DOMAIN design.netlists PROVE Whole(n)' \/ None(n)'
  <2>1. Whole(n) \/ None(n)
    <3>1. CASE Partly(n)
      <4>1. PICK t : t = Top
        OBVIOUS
      <4>2. /\ t.of = n /\ Taken(t) = Len(Body(n))
            /\ \A i \in 1 .. Len(Body(n)) : i <= Taken(t) => PartId(n, i) \in DOMAIN all_names
        BY <1>1, <3>1, <4>1 DEF Partly
      <4>3. Len(Body(n)) \in Nat
        BY BodyFacts, OwnElements DEF Struct, StackOK
      <4> QED BY <4>2, <4>3 DEF Whole
    <3> QED BY <1>4, <3>1 DEF PartsInv, PartsInOrder
  <2>2. Whole(n) => Whole(n)'
    BY <1>1, WholeStays
  <2>3. None(n) => None(n)'
    BY <1>1, NoneStays
  <2> QED BY <2>1, <2>2, <2>3
<1>5. PartsInOrder'
  BY <1>1, <1>4 DEF PartsInOrder
<1> QED
  BY <1>3, <1>5 DEF PartsInv

(* A step that changes neither the names nor the stack. *)
LEMMA PartsStay ==
  ASSUME Struct, PartsInv, UNCHANGED <<design, stack, all_names, home>>, failed => failed'
  PROVE  PartsInv'
<1>1. NamesGrow
  BY DEF NamesGrow
<1>2. PartsDistinct'
  BY <1>1, DistinctStays DEF PartsInv
<1>3. ASSUME ~ failed', NEW n \in DOMAIN design.netlists PROVE Whole(n)' \/ None(n)' \/ Partly(n)'
  <2>1. Whole(n) \/ None(n) \/ Partly(n)
    BY <1>3 DEF PartsInv, PartsInOrder
  <2>2. Whole(n) => Whole(n)'
    BY WholeStays
  <2>3. None(n) => None(n)'
    BY NoneStays
  <2>4. Partly(n) => Partly(n)'
    <3>1. PICK t : t = Top
      OBVIOUS
    <3>2. Top' = t /\ (InBody' <=> InBody) /\ Taken(t)' = Taken(t)
      BY <3>1, SameTop, Static
    <3>3. Taken(Top)' = Taken(t)
      BY <3>2
    <3>4. Body(n)' = Body(n) /\ \A i : PartId(n, i)' = PartId(n, i)
      BY PartStatic
    <3> QED BY <3>1, <3>2, <3>3, <3>4 DEF Partly
  <2> QED BY <2>1, <2>2, <2>3, <2>4
<1>4. PartsInOrder'
  BY <1>3 DEF PartsInOrder
<1> QED
  BY <1>2, <1>4 DEF PartsInv

(* PartsInv is about these variables only. *)
LEMMA PartsStutter ==
  ASSUME Struct, PartsInv, UNCHANGED <<nameVars, ioVars, textVars>>
  PROVE  PartsInv'
BY PartsStay DEF nameVars, textVars

(* The part that is next is named. *)
LEMMA PartsNext ==
  ASSUME Struct, ClashInv, PartsInv, ~ failed, InPart, Named, UNCHANGED design, IInv',
         \/ UNCHANGED stack /\ occupied' # NoError
         \/ failed'
         \/ occupied' = NoError /\ Goes
  PROVE  PartsInv'
<1>1. PICK n, q, o : n = Top.of /\ q = Taken(Top) + 1 /\ o = PartId(n, q)
  OBVIOUS
<1>2. /\ InBody /\ n \in DOMAIN design.netlists /\ q \in 1 .. Len(Body(n)) /\ Taken(Top) = q - 1 /\ Taken(Top) \in Nat
      /\ NextOne.of.id = o
  BY <1>1 DEF InPart, NextOne, PartId
<1>3. Keeps(o) \/ Throws(o) \/ Gets(o, AsksFor(NextOne), 2)
  BY <1>2 DEF Named
<1>4. design \in Designs /\ Len(Body(n)) \in Nat
  BY <1>2, BodyFacts, OwnElements DEF Struct, StackOK
<1>5. NamesGrow
  BY <1>3, GrowsFacts
<1>6. \A i \in 1 .. Len(Body(n)) : i < q => PartId(n, i) \in DOMAIN all_names
  BY <1>1, <1>2 DEF ClashInv, PartsNamed, PartId
<1>7. ASSUME NEW m \in DOMAIN design.netlists, NEW i \in 1 .. Len(Body(m)), PartId(m, i) = o
      PROVE  m = n /\ i = q
  BY <1>1, <1>2, <1>4, <1>7, BodyIds DEF PartId
<1>8. \A x \in DOMAIN all_names' : x \in DOMAIN all_names \/ (x = o /\ Gets(o, AsksFor(NextOne), 2))
  BY <1>3 DEF Keeps, Throws, Gets, nameVars

(* The part did not have a name: those in front of it were named here.     *)
<1>9. ASSUME o \notin DOMAIN all_names
      PROVE  \A i \in 1 .. Len(Body(n)) :
               IF i < q THEN PartId(n, i) \in DOMAIN all_names /\ home[PartId(n, i)] = 2
               ELSE PartId(n, i) \notin DOMAIN all_names
  <2>1. Whole(n) \/ None(n) \/ Partly(n)
    BY <1>2 DEF PartsInv, PartsInOrder
  <2>2. ~ Whole(n)
    BY <1>1, <1>2, <1>9 DEF Whole
  <2>3. CASE None(n)
    <3>1. q = 1
      <4>1. ASSUME q # 1 PROVE FALSE
        <5>1. 1 \in 1 .. Len(Body(n)) /\ 1 < q
          BY <1>2, <1>4, <4>1
        <5> QED BY <1>6, <2>3, <5>1 DEF None
      <4> QED BY <4>1
    <3>2. \A i \in 1 .. Len(Body(n)) : ~ (i < q) /\ PartId(n, i) \notin DOMAIN all_names
      BY <1>4, <2>3, <3>1 DEF None
    <3> QED BY <3>2
  <2>4. CASE Partly(n)
    <3>1. \A i \in 1 .. Len(Body(n)) :
            IF i <= q - 1 THEN PartId(n, i) \in DOMAIN all_names /\ home[PartId(n, i)] = 2
            ELSE PartId(n, i) \notin DOMAIN all_names
      BY <1>2, <2>4 DEF Partly
    <3>2. \A i \in 1 .. Len(Body(n)) : i <= q - 1 <=> i < q
      BY <1>2, <1>4
    <3> QED BY <3>1, <3>2
  <2> QED BY <2>1, <2>2, <2>3, <2>4
<1>10. PartsDistinct'
  <2>1. CASE o \in DOMAIN all_names
    <3>1. ~ Gets(o, AsksFor(NextOne), 2)
      BY <2>1 DEF Gets
    <3> QED BY <1>5, <1>8, <3>1, DistinctStays DEF PartsInv
  <2>2. CASE Throws(o)
    <3>1. all_names' = all_names
      BY <2>2 DEF Throws
    <3> QED BY <1>5, <3>1, DistinctStays DEF PartsInv
  <2>3. CASE Gets(o, AsksFor(NextOne), 2)
    <3>1. /\ o \notin DOMAIN all_names /\ o \in DOMAIN all_names' /\ home'[o] = 2
          /\ \A x \in DOMAIN all_names : x \in DOMAIN all_names' /\ home'[x] = home[x]
      BY <2>3 DEF Gets
    <3>2. ASSUME NEW i \in 1 .. Len(Body(n)), i # q, PartId(n, i) \in DOMAIN all_names'
          PROVE  all_names'[PartId(n, i)] # all_names'[o]
      <4>1. PICK x : x = PartId(n, i)
        OBVIOUS
      <4>2. x # o
        BY <1>2, <1>7, <3>2, <4>1
      <4>3. x \in DOMAIN all_names
        BY <1>8, <3>2, <4>1, <4>2
      <4>4. home[x] = 2
        BY <1>9, <3>1, <4>1, <4>3
      <4>5. home'[x] = 2 /\ x \in DOMAIN all_names'
        BY <3>1, <4>3, <4>4
      <4>6. Shadowing'
        BY DEF IInv
      <4>7. x # o /\ home'[x] # 0 /\ home'[o] >= home'[x] /\ ~ (home'[o] > home'[x])
        BY <3>1, <4>2, <4>5
      <4>8. (\A a, b \in DOMAIN all_names :
              a # b /\ home[a] # 0 /\ home[b] >= home[a] /\ Folded(all_names[a]) = Folded(all_names[b]) =>
                home[b] > home[a] /\ Before(order, b, a))'
        BY <4>6 DEF Shadowing
      <4>9. Folded(all_names[x])' # Folded(all_names[o])'
        BY <3>1, <4>5, <4>7, <4>8
      <4>10. all_names'[x] # all_names'[o]
        BY <4>9
      <4> QED BY <4>1, <4>10
    <3>3. ASSUME NEW m \in DOMAIN design.netlists, NEW i \in 1 .. Len(Body(m)), NEW j \in 1 .. Len(Body(m)), i # j,
                 PartId(m, i) \in DOMAIN all_names', PartId(m, j) \in DOMAIN all_names'
          PROVE  all_names'[PartId(m, i)] # all_names'[PartId(m, j)]
      <4>1. CASE PartId(m, i) = o
        <5>1. m = n /\ i = q
          BY <1>7, <4>1
        <5>2. all_names'[PartId(n, j)] # all_names'[o]
          BY <3>2, <3>3, <5>1
        <5> QED BY <4>1, <5>1, <5>2
      <4>2. CASE PartId(m, j) = o
        <5>1. m = n /\ j = q
          BY <1>7, <4>2
        <5>2. all_names'[PartId(n, i)] # all_names'[o]
          BY <3>2, <3>3, <5>1
        <5> QED BY <4>2, <5>1, <5>2
      <4>3. CASE PartId(m, i) # o /\ PartId(m, j) # o
        <5>1. PartId(m, i) \in DOMAIN all_names /\ PartId(m, j) \in DOMAIN all_names
          BY <1>8, <3>3, <4>3
        <5>2. all_names[PartId(m, i)] # all_names[PartId(m, j)]
          BY <3>3, <5>1 DEF PartsInv, PartsDistinct
        <5> QED BY <1>5, <5>1, <5>2 DEF NamesGrow
      <4> QED BY <4>1, <4>2, <4>3
    <3>4. \A m : Body(m)' = Body(m) /\ \A i : PartId(m, i)' = PartId(m, i)
      BY PartStatic
    <3> QED BY <3>3, <3>4 DEF PartsDistinct
  <2> QED BY <1>3, <2>1, <2>2, <2>3 DEF Keeps
<1>11. PartsInOrder'
  <2>1. CASE failed'
    BY <2>1 DEF PartsInOrder
  <2>2. CASE UNCHANGED stack /\ occupied' # NoError /\ ~ failed'
    <3>1. UNCHANGED <<all_names, home>>
      <4>1. ~ Gets(o, AsksFor(NextOne), 2)
        BY <2>2 DEF Gets
      <4> QED BY <1>3, <4>1 DEF Keeps, Throws, nameVars
    <3>2. PartsInv'
      BY <2>2, <3>1, PartsStay
    <3> QED BY <3>2 DEF PartsInv
  <2>3. CASE occupied' = NoError /\ Goes /\ ~ failed'
    <3>1. PICK f : /\ stack' # << >> /\ Top' = f /\ f.of = n /\ f.stage = "body" /\ Taken(f) = q
      BY <1>1, <2>3 DEF Goes
    <3>2. InBody' /\ Taken(Top)' = q
      <4>1. Taken(f)' = q
        BY <3>1, Static
      <4> QED BY <3>1, <4>1 DEF InBody
    <3>3. Keeps(o) \/ Gets(o, AsksFor(NextOne), 2)
      BY <1>3, <2>3 DEF Throws
    <3>4. ASSUME NEW m \in DOMAIN design.netlists PROVE Whole(m)' \/ None(m)' \/ Partly(m)'
      <4>1. Whole(m) \/ None(m) \/ Partly(m)
        BY <3>4 DEF PartsInv, PartsInOrder
      <4>2. CASE Whole(m)
        BY <1>5, <4>2, WholeStays DEF NamesGrow
      <4>3. CASE m # n /\ ~ Whole(m)
        <5>1. None(m)
          BY <1>1, <4>1, <4>3 DEF Partly
        <5>2. \A i \in 1 .. Len(Body(m)) : PartId(m, i) \in DOMAIN all_names' => PartId(m, i) \in DOMAIN all_names
          BY <1>7, <1>8, <4>3
        <5> QED BY <5>1, <5>2, NoneStays
      <4>4. CASE m = n /\ o \notin DOMAIN all_names
        <5>1. Gets(o, AsksFor(NextOne), 2)
          BY <3>3, <4>4 DEF Keeps
        <5>2. ASSUME NEW i \in 1 .. Len(Body(n))
              PROVE  IF i <= q THEN PartId(n, i) \in DOMAIN all_names' /\ home'[PartId(n, i)] = 2
                     ELSE PartId(n, i) \notin DOMAIN all_names'
          <6>1. CASE i < q
            <7>a. PartId(n, i) \in DOMAIN all_names /\ home[PartId(n, i)] = 2
              BY <1>9, <4>4, <6>1
            <7>1. PartId(n, i) \in DOMAIN all_names /\ home[PartId(n, i)] = 2 /\ i <= q
              BY <1>2, <1>4, <6>1, <7>a
            <7> QED BY <5>1, <7>1 DEF Gets
          <6>2. CASE i = q
            <7>1. i <= q /\ PartId(n, i) = o
              BY <1>1, <1>2, <6>2
            <7> QED BY <5>1, <7>1 DEF Gets
          <6>3. CASE i > q
            <7>1. ~ (i < q) /\ ~ (i <= q) /\ i # q
              BY <1>2, <1>4, <6>3
            <7>2. PartId(n, i) \notin DOMAIN all_names
              BY <1>9, <4>4, <7>1
            <7>3. PartId(n, i) # o
              BY <1>2, <1>7, <7>1
            <7> QED BY <1>8, <7>1, <7>2, <7>3
          <6> QED BY <1>2, <1>4, <6>1, <6>2, <6>3
        <5>3. \A j : Body(j)' = Body(j) /\ \A i : PartId(j, i)' = PartId(j, i)
          BY PartStatic
        <5>4. Partly(n)'
          BY <3>1, <3>2, <5>2, <5>3 DEF Partly
        <5> QED BY <4>4, <5>4
      <4>5. CASE m = n /\ o \in DOMAIN all_names /\ Partly(m)
        <5>1. ~ (q <= q - 1)
          BY <1>2
        <5>2. o \notin DOMAIN all_names
          BY <1>1, <1>2, <4>5, <5>1 DEF Partly
        <5> QED BY <4>5, <5>2
      <4>6. CASE m = n /\ o \in DOMAIN all_names /\ None(m)
        BY <1>1, <1>2, <4>6 DEF None
      <4> QED BY <4>1, <4>2, <4>3, <4>4, <4>5, <4>6
    <3> QED BY <3>4 DEF PartsInOrder
  <2> QED BY <2>1, <2>2, <2>3
<1> QED
  BY <1>10, <1>11 DEF PartsInv

(* serialize_declaration names the next part. *)
LEMMA PartsDeclaration ==
  ASSUME Struct, ClashInv, PartsInv, serialize_declaration
  PROVE  PartsInv'
<1>1. ~ failed
  BY DEF serialize_declaration, Next_, Running
<1>2. /\ InPart /\ Named /\ UNCHANGED design /\ IInv'
      /\ Fails \/ (occupied' = NoError /\ Goes)
  BY DeclarationStep DEF Struct
<1> QED
  BY <1>1, <1>2, PartsNext DEF Fails

(* serialize_component_instance names the next part. *)
LEMMA PartsInstance ==
  ASSUME Struct, ClashInv, PartsInv, serialize_component_instance
  PROVE  PartsInv'
<1>1. ~ failed
  BY DEF serialize_component_instance, Next_, Running
<1>2. /\ InPart /\ Named /\ UNCHANGED design /\ IInv'
      /\ Fails \/ Crash \/ (occupied' = NoError /\ Goes)
  BY InstanceStep DEF Struct
<1>3. Crash => failed'
  <2> SUFFICES ASSUME Crash PROVE failed'
    OBVIOUS
  <2>1. failed' # failed
    BY DEF Crash
  <2>2. failed' \in {TRUE, failed} 
    BY DEF serialize_component_instance
  <2> QED BY <2>1, <2>2
<1> QED
  BY <1>1, <1>2, <1>3, PartsNext DEF Fails
-----------------------------------------------------------------------------
(* Balance is kept by every action. *)

(* The size of two sets that have nothing in common. *)
LEMMA DisjointUnion ==
  ASSUME NEW S, NEW T, IsFiniteSet(S), IsFiniteSet(T), S \cap T = {}
  PROVE  IsFiniteSet(S \cup T) /\ Cardinality(S \cup T) = Cardinality(S) + Cardinality(T)
<1>1. IsFiniteSet(S \cup T) /\ Cardinality(S \cup T) = Cardinality(S) + Cardinality(T) - Cardinality({})
  BY FS_Union
<1>2. Cardinality({}) = 0 /\ Cardinality(S) \in Nat /\ Cardinality(T) \in Nat
  BY FS_EmptySet, FS_CardinalityType
<1> QED
  BY <1>1, <1>2

(* The size of a set that is another one by a renaming. *)
LEMMA OneToOne ==
  ASSUME NEW S, NEW T, NEW f \in [S -> T], IsFiniteSet(S),
         \A x, y \in S : f[x] = f[y] => x = y, \A y \in T : \E x \in S : f[x] = y
  PROVE  IsFiniteSet(T) /\ Cardinality(T) = Cardinality(S)
<1>1. f \in Bijection(S, T)
  BY DEF Bijection, Injection, Surjection, IsInjective
<1>2. ExistsBijection(S, T)
  BY <1>1 DEF ExistsBijection
<1> QED
  BY <1>2, FS_Bijection

MakesSorted(n, m) == {k \in 1 .. Len(SortedComponents(n)) : SortedComponents(n)[k].of = m}

(* Sorting does not change how many components are of a netlist.           *)
LEMMA MakesCount ==
  ASSUME design \in Designs, NEW n \in DOMAIN design.netlists, NEW m, NEW i, NEW h,
         IsFiniteSet({i} \X MakesSorted(n, m))
  PROVE  /\ IsFiniteSet({h} \X Makes(n, m))
         /\ Cardinality({h} \X Makes(n, m)) = Cardinality({i} \X MakesSorted(n, m))
<1>1. PICK s, r : s = Netlist(n).comps /\ r = SortedComponents(n)
  OBVIOUS
<1>2. PICK f : Rearranges(f, s, r)
  BY <1>1, BodyFacts
<1>3. Len(r) = Len(s) /\ DOMAIN s = 1 .. Len(s)
  BY <1>1, Sorted, RearrangedFacts, OwnElements
<1>4. PICK A, B : A = Makes(n, m) /\ B = MakesSorted(n, m)
  OBVIOUS
<1>5. /\ A = {k \in 1 .. Len(s) : s[k].of = m}
      /\ B = {k \in 1 .. Len(s) : r[k].of = m}
  BY <1>1, <1>3, <1>4 DEF Makes, MakesSorted
<1>r. /\ \A j \in 1 .. Len(s) : f[j] \in 1 .. Len(s) /\ r[j] = s[f[j]]
      /\ \A j, k \in 1 .. Len(s) : f[j] = f[k] => j = k
      /\ \A j \in 1 .. Len(s) : \E k \in 1 .. Len(s) : f[k] = j
  BY <1>2 DEF Rearranges
<1>a. \A k \in B : f[k] \in A
  BY <1>5, <1>r
<1>b. \A k, l \in B : f[k] = f[l] => k = l
  BY <1>5, <1>r
<1>c. ASSUME NEW k \in A PROVE \E l \in B : f[l] = k
  <2>1. PICK l \in 1 .. Len(s) : f[l] = k
    BY <1>5, <1>r, <1>c
  <2> QED BY <1>5, <1>r, <1>c, <2>1
<1>6. /\ \A k \in B : f[k] \in A
      /\ \A k, l \in B : f[k] = f[l] => k = l
      /\ \A k \in A : \E l \in B : f[l] = k
  BY <1>a, <1>b, <1>c
<1>7. PICK F : F = [p \in {i} \X B |-> <<h, f[p[2]]>>]
  OBVIOUS
<1>8. F \in [{i} \X B -> {h} \X A]
  BY <1>6, <1>7
<1>9. \A x, y \in {i} \X B : F[x] = F[y] => x = y
  BY <1>6, <1>7
<1>10. ASSUME NEW y \in {h} \X A PROVE \E x \in {i} \X B : F[x] = y
  <2>1. y = <<h, y[2]>> /\ y[2] \in A
    OBVIOUS
  <2>2. PICK l \in B : f[l] = y[2]
    BY <1>6, <2>1
  <2>3. <<i, l>> \in {i} \X B /\ F[<<i, l>>] = <<h, f[l]>>
    BY <1>7
  <2> QED BY <2>1, <2>2, <2>3
<1>11. PICK S, T : S = {i} \X B /\ T = {h} \X A
  OBVIOUS
<1>12. F \in [S -> T] /\ IsFiniteSet(S)
  BY <1>4, <1>8, <1>11
<1>13. (\A x, y \in S : F[x] = F[y] => x = y) /\ \A y \in T : \E x \in S : F[x] = y
  BY <1>9, <1>10, <1>11
<1>14. IsFiniteSet(T) /\ Cardinality(T) = Cardinality(S)
  BY <1>12, <1>13, OneToOne
<1> QED
  BY <1>4, <1>11, <1>14, Zenon

(* What is in these unions. *)
LEMMA PendingFacts ==
  ASSUME NEW n
  PROVE  /\ \A p : p \in Pending(n) <=> \E i \in 1 .. Len(stack) : \E k \in Ready(i, n) : p = <<i, k>>
         /\ \A p : p \in Pending(n)' <=> \E i \in 1 .. Len(stack') : \E k \in Ready(i, n)' : p = <<i, k>>
<1>1. \A p : p \in Pending(n) <=> \E i \in 1 .. Len(stack) : \E k \in Ready(i, n) : p = <<i, k>>
  BY DEF Pending
<1>2. \A p : p \in Pending(n)' <=> \E i \in 1 .. Len(stack') : \E k \in Ready(i, n)' : p = <<i, k>>
  BY DEF Pending
<1> QED
  BY <1>1, <1>2

(* The members of Needed, before and after a step. *)
LEMMA NeededFacts ==
  ASSUME NEW n
  PROVE  /\ \A p : p \in Needed(n) <=>
                    \E i \in Written("module") : \E k \in Makes(written[i].of, n) : p = <<i, k>>
         /\ \A p : p \in Needed(n)' <=>
                    \E i \in Written("module")' : \E k \in Makes(written[i].of, n)' : p = <<i, k>>
<1>1. \A p : p \in Needed(n) <=> \E i \in Written("module") : \E k \in Makes(written[i].of, n) : p = <<i, k>>
  BY DEF Needed, Makes
<1>2. \A p : p \in Needed(n)' <=> \E i \in Written("module")' : \E k \in Makes(written[i].of, n)' : p = <<i, k>>
  BY DEF Needed, Makes
<1> QED
  BY <1>1, <1>2

(* A frame that nothing happens to. *)
LEMMA ReadyStays ==
  ASSUME UNCHANGED design, NEW i, NEW n, stack'[i] = stack[i], OnTop(i)' <=> OnTop(i)
  PROVE  Ready(i, n)' = Ready(i, n)
<1>1. PICK f : f = stack[i]
  OBVIOUS
<1>2. /\ \A m : SortedComponents(m)' = SortedComponents(m)
      /\ Delivered(f, TRUE)' = Delivered(f, TRUE) /\ Delivered(f, FALSE)' = Delivered(f, FALSE)
  BY Static
<1>3. (stack[i])' = f
  BY <1>1
<1>4. Delivered(stack[i], TRUE)' = Delivered(f, TRUE) /\ Delivered(stack[i], FALSE)' = Delivered(f, FALSE)
  BY <1>2, <1>3
<1>5. Arrived(i)' = Arrived(i)
  BY <1>1, <1>4 DEF Arrived
<1>6. SortedComponents(stack[i].of)' = SortedComponents(f.of)
  BY <1>2, <1>3
<1> QED
  BY <1>1, <1>3, <1>5, <1>6 DEF Ready

(* A step that starts no definition. *)
LEMMA BalanceSame ==
  ASSUME WrittenOK, Balance, UNCHANGED design, Longer, Written("module")' = Written("module"),
         RootStarted' <=> RootStarted, stack' # << >> => stack'[1].of = design.top,
         \A n, i, k : (i \in 1 .. Len(stack') /\ k \in Ready(i, n)') <=> (i \in 1 .. Len(stack) /\ k \in Ready(i, n))
  PROVE  Balance'
<1>1. \A i \in Written("module") : written'[i] = written[i]
  BY WrittenGrows
<1>2. \A m, n : Makes(m, n)' = Makes(m, n)
  BY Static DEF Makes
<1>3. ASSUME NEW n \in DOMAIN design.netlists
      PROVE  (/\ IsFiniteSet(Definitions(n)) /\ IsFiniteSet(Needed(n)) /\ IsFiniteSet(Pending(n))
              /\ Cardinality(Definitions(n)) =
                   Cardinality(Needed(n)) + Cardinality(Pending(n))
                     + IF n = design.top /\ RootStarted THEN 1 ELSE 0)'
  <2>1. Definitions(n)' = Definitions(n)
    BY <1>1 DEF Definitions
  <2>2. Needed(n)' = Needed(n)
    <3>1. \A i \in Written("module") : Makes(written[i].of, n)' = Makes(written[i].of, n)
      <4> SUFFICES ASSUME NEW i \in Written("module") PROVE Makes(written[i].of, n)' = Makes(written[i].of, n)
        OBVIOUS
      <4>1. PICK m : m = written[i].of
        OBVIOUS
      <4>2. (written[i].of)' = m /\ Makes(m, n)' = Makes(m, n)
        BY <1>1, <1>2, <4>1
      <4>3. Makes(written[i].of, n)' = Makes(m, n)
        BY <4>2
      <4> QED BY <4>1, <4>3
    <3>2. \A p : p \in Needed(n)' <=> \E i \in Written("module")' : \E k \in Makes(written[i].of, n)' : p = <<i, k>>
      BY NeededFacts
    <3>3. \A p : p \in Needed(n)' <=> p \in Needed(n)
      BY <3>1, <3>2, NeededFacts
    <3>4. PICK S : S = Needed(n)
      OBVIOUS
    <3>5. PICK T : T = Needed(n)'
      OBVIOUS
    <3> QED BY <3>3, <3>4, <3>5
  <2>3. Pending(n)' = Pending(n)
    <3>1. PICK S : S = Pending(n)
      OBVIOUS
    <3>2. PICK T : T = Pending(n)'
      OBVIOUS
    <3>3. \A p : p \in Pending(n)' <=> \E i \in 1 .. Len(stack') : \E k \in Ready(i, n)' : p = <<i, k>>
      BY PendingFacts
    <3>4. \A p : p \in Pending(n)' <=> p \in Pending(n)
      BY <3>3, PendingFacts
    <3> QED BY <3>1, <3>2, <3>4
  <2> QED BY <1>3, <2>1, <2>2, <2>3 DEF Balance
<1> QED
  BY <1>3 DEF Balance

(* A step that leaves the stack and the heads alone. *)
LEMMA BalanceStays ==
  ASSUME WrittenOK, Balance, UNCHANGED <<design, stack>>, Longer, Written("module")' = Written("module")
  PROVE  Balance'
<1>1. InBody' <=> InBody
  BY SameTop
<1>2. \A i : OnTop(i)' <=> OnTop(i)
  BY <1>1 DEF OnTop
<1>3. \A n, i : Ready(i, n)' = Ready(i, n)
  BY <1>2, ReadyStays
<1>4. RootStarted' <=> RootStarted
  BY <1>1 DEF RootStarted
<1>5. stack' # << >> => stack'[1].of = design.top
  BY DEF Balance
<1>6. \A n, i, k : (i \in 1 .. Len(stack') /\ k \in Ready(i, n)') <=> (i \in 1 .. Len(stack) /\ k \in Ready(i, n))
  BY <1>3
<1> QED
  BY <1>4, <1>5, <1>6, BalanceSame

(* Balance is about these variables only. *)
LEMMA BalanceStutter ==
  ASSUME Struct, Balance, UNCHANGED <<nameVars, ioVars, textVars>>
  PROVE  Balance'
<1>1. UNCHANGED <<design, stack, written>> /\ WrittenOK
  BY DEF Struct, textVars
<1>2. Longer /\ Written("module")' = Written("module")
  BY <1>1, NoHeadAdded
<1> QED
  BY <1>1, <1>2, BalanceStays

(* The frame on top changes to one that is done with as much. *)
LEMMA BalanceSwapped ==
  ASSUME Struct, Balance, UNCHANGED design, Longer, Written("module")' = Written("module"),
         stack # << >>, NEW f, Swapped(f), stack' # << >>, Top' = f, f.of = Top.of,
         f.stage = "body" <=> Top.stage = "body", Delivered(f, TRUE) = Delivered(Top, TRUE)
  PROVE  Balance'
<1>1. PICK t : t = Top
  OBVIOUS
<1>2. PICK l \in Nat \ {0} : l = Len(stack)
  BY TopFacts DEF Struct
<1>3. /\ stack[l] = t /\ stack'[l] = f /\ Len(stack') = l
      /\ \A i \in 1 .. l - 1 : stack'[i] = stack[i]
  BY <1>1, <1>2, TopFacts DEF Swapped, Struct
<1>4. InBody' <=> InBody
  BY <1>1 DEF InBody
<1>5. \A i : OnTop(i)' <=> OnTop(i)
  BY <1>2, <1>3, <1>4 DEF OnTop
<1>6. \A n : \A i \in 1 .. l - 1 : Ready(i, n)' = Ready(i, n)
  BY <1>3, <1>5, ReadyStays
<1>7. ASSUME NEW n PROVE Ready(l, n)' = Ready(l, n)
  <2>1. /\ OnTop(l) /\ OnTop(l)'
    BY <1>2, <1>3 DEF OnTop
  <2>2. Arrived(l) = Delivered(t, TRUE)
    BY <1>3, <2>1 DEF Arrived
  <2>3. Delivered(f, TRUE)' = Delivered(t, TRUE) /\ \A m : SortedComponents(m)' = SortedComponents(m)
    <3>1. Delivered(f, TRUE)' = Delivered(f, TRUE) /\ \A m : SortedComponents(m)' = SortedComponents(m)
      BY Static
    <3> QED BY <1>1, <3>1
  <2>4. Arrived(l)' = Delivered(t, TRUE)
    BY <1>3, <2>1, <2>3 DEF Arrived
  <2>5. SortedComponents(stack[l].of)' = SortedComponents(t.of)
    BY <1>1, <1>3, <2>3
  <2> QED BY <1>1, <1>3, <2>2, <2>4, <2>5 DEF Ready
<1>8. \A n : \A i \in 1 .. l : Ready(i, n)' = Ready(i, n)
  <2>1. \A i \in 1 .. l : i \in 1 .. l - 1 \/ i = l
    BY <1>2
  <2> QED BY <1>6, <1>7, <2>1
<1>9. \A n, i, k : (i \in 1 .. Len(stack') /\ k \in Ready(i, n)') <=> (i \in 1 .. Len(stack) /\ k \in Ready(i, n))
  BY <1>2, <1>3, <1>8
<1>10. RootStarted' <=> RootStarted
  BY <1>2, <1>3, <1>4 DEF RootStarted
<1>11. stack'[1].of = design.top
  <2>1. stack[1].of = design.top
    BY DEF Balance
  <2>2. CASE l = 1
    BY <1>1, <1>3, <2>1, <2>2
  <2>3. CASE l # 1
    <3>1. 1 \in 1 .. l - 1
      BY <1>2, <2>3
    <3> QED BY <1>3, <2>1, <3>1
  <2> QED BY <2>2, <2>3
<1> QED
  BY <1>9, <1>10, <1>11, BalanceSame DEF Struct

(* serialize_dependency delivers nothing: the frame waits for the one      *)
(* above.                                                                  *)
LEMMA BalanceDependency ==
  ASSUME Struct, Balance, serialize_dependency
  PROVE  Balance'
<1>1. UNCHANGED <<design, written>> /\ WrittenOK
  BY DEF serialize_dependency, Struct
<1>2. Longer /\ Written("module")' = Written("module")
  BY <1>1, NoHeadAdded
<1>3. PICK g, f :
        /\ Pushed(g, f) /\ Top' = f /\ stack' # << >> /\ f.stage = "dependencies" /\ g.of = Top.of
        /\ g.stage = "dependencies" /\ Top.stage = "dependencies"
        /\ Taken(g) = Taken(Top) + 1 /\ Taken(f) = 0 /\ Taken(Top) \in Nat
        /\ stack # << >>
  BY DependencyStep
<1>4. PICK t : t = Top
  OBVIOUS
<1>5. PICK l \in Nat \ {0} : l = Len(stack)
  BY <1>3, TopFacts DEF Struct
<1>6. /\ stack[l] = t /\ stack'[l] = g /\ stack'[l + 1] = f /\ Len(stack') = l + 1
      /\ \A i \in 1 .. l - 1 : stack'[i] = stack[i]
  BY <1>3, <1>4, <1>5, TopFacts DEF Pushed, Struct
<1>7. ~ InBody /\ ~ InBody'
  BY <1>3 DEF InBody
<1>8. /\ \A i \in 1 .. l - 1 : ~ OnTop(i) /\ ~ OnTop(i)'
      /\ OnTop(l) /\ ~ OnTop(l)' /\ OnTop(l + 1)'
  BY <1>5, <1>6, <1>7 DEF OnTop
<1>9. ASSUME NEW n, NEW i \in 1 .. l - 1 PROVE Ready(i, n)' = Ready(i, n)
  <2>1. stack'[i] = stack[i] /\ (OnTop(i)' <=> OnTop(i))
    BY <1>6, <1>8
  <2> QED BY <1>1, <2>1, ReadyStays
<1>10. ASSUME NEW n PROVE Ready(l, n)' = Ready(l, n)
  <2>1. PICK x \in Nat : x = Taken(t)
    BY <1>3, <1>4
  <2>2. Arrived(l) = x
    <3>1. Arrived(l) = x - 0 /\ x - 0 = x
      BY <1>3, <1>4, <1>6, <1>8, <2>1 DEF Arrived, Delivered
    <3> QED BY <3>1
  <2>3. Arrived(l)' = x
    <3>1. Delivered(g, FALSE)' = Delivered(g, FALSE)
      BY <1>1, Static
    <3>2. Delivered(g, FALSE) = (x + 1) - 1
      BY <1>3, <1>4, <2>1 DEF Delivered
    <3>3. Arrived(l)' = Delivered(g, FALSE)'
      BY <1>6, <1>8 DEF Arrived
    <3>4. (x + 1) - 1 = x
      OBVIOUS
    <3> QED BY <3>1, <3>2, <3>3, <3>4
  <2>4. SortedComponents(stack[l].of)' = SortedComponents(t.of)
    <3>1. \A m : SortedComponents(m)' = SortedComponents(m)
      BY <1>1, Static
    <3> QED BY <1>3, <1>4, <1>6, <3>1
  <2> QED BY <1>3, <1>4, <1>6, <2>2, <2>3, <2>4 DEF Ready
<1>11. ASSUME NEW n PROVE Ready(l + 1, n)' = {}
  <2>1. Arrived(l + 1)' = 0
    <3>1. Delivered(f, TRUE)' = Delivered(f, TRUE)
      BY <1>1, Static
    <3>2. Delivered(f, TRUE) = 0
      BY <1>3 DEF Delivered
    <3>3. Arrived(l + 1)' = Delivered(f, TRUE)'
      BY <1>6, <1>8 DEF Arrived
    <3> QED BY <3>1, <3>2, <3>3
  <2>2. ASSUME NEW k \in 1 .. Arrived(l + 1)' PROVE FALSE
    <3>1. k \in 1 .. 0
      BY <2>1, <2>2
    <3> QED BY <3>1
  <2> QED BY <2>2 DEF Ready
<1>12. \A n, i, k : (i \in 1 .. Len(stack') /\ k \in Ready(i, n)') <=> (i \in 1 .. Len(stack) /\ k \in Ready(i, n))
  <2> SUFFICES ASSUME NEW n, NEW i, NEW k
               PROVE (i \in 1 .. l + 1 /\ k \in Ready(i, n)') <=> (i \in 1 .. l /\ k \in Ready(i, n))
    BY <1>5, <1>6
  <2>1. CASE i \in 1 .. l - 1
    <3>1. i \in 1 .. l + 1 /\ i \in 1 .. l
      BY <1>5, <2>1
    <3> QED BY <1>9, <2>1, <3>1
  <2>2. CASE i = l
    <3>1. l \in 1 .. l + 1 /\ l \in 1 .. l
      BY <1>5
    <3> QED BY <1>10, <2>2, <3>1
  <2>3. CASE i = l + 1
    <3>1. l + 1 \notin 1 .. l
      BY <1>5
    <3> QED BY <1>11, <2>3, <3>1
  <2>4. i \notin 1 .. l - 1 /\ i # l /\ i # l + 1 => i \notin 1 .. l + 1 /\ i \notin 1 .. l
    BY <1>5
  <2> QED BY <2>1, <2>2, <2>3, <2>4
<1>13. ~ RootStarted' /\ ~ RootStarted
  BY <1>3, <1>7 DEF RootStarted
<1>14. stack'[1].of = design.top
  <2>1. stack[1].of = design.top
    BY <1>3 DEF Balance
  <2>2. CASE l = 1
    BY <1>3, <1>4, <1>6, <2>1, <2>2
  <2>3. CASE l # 1
    <3>1. 1 \in 1 .. l - 1
      BY <1>5, <2>3
    <3> QED BY <1>6, <2>1, <3>1
  <2> QED BY <2>2, <2>3
<1> QED
  BY <1>1, <1>2, <1>12, <1>13, <1>14, BalanceSame

(* name_module delivers nothing. *)
LEMMA BalanceNameModule ==
  ASSUME Struct, Balance, name_module
  PROVE  Balance'
<1>1. UNCHANGED <<design, written>> /\ WrittenOK
  BY DEF name_module, Struct
<1>2. Longer /\ Written("module")' = Written("module")
  BY <1>1, NoHeadAdded
<1>3. PICK t, f : t = Top /\ f = [t EXCEPT !.stage = "head"]
  OBVIOUS
<1>4. /\ stack # << >> /\ t.stage = "dependencies" /\ Taken(t) = Len(SortedComponents(t.of))
      /\ \/ stack' = stack
         \/ Swapped(f) /\ stack' # << >> /\ Top' = f
  BY <1>3, NameModuleStep
<1>5. CASE stack' = stack
  BY <1>1, <1>2, <1>5, BalanceStays
<1>6. CASE Swapped(f) /\ stack' # << >> /\ Top' = f
  <2>1. FrameOK(t)
    BY <1>3, <1>4, TopFacts DEF Struct
  <2>2. f.of = t.of /\ f.stage = "head"
    BY <1>3, <2>1 DEF FrameOK
  <2>3. Delivered(f, TRUE) = Len(SortedComponents(t.of))
    BY <2>2 DEF Delivered
  <2>4. Delivered(t, TRUE) = Len(SortedComponents(t.of))
    <3>1. design \in Designs
      BY DEF Struct, StackOK
    <3>2. PICK x \in Nat : x = Taken(t)
      BY <2>1, <3>1, AllIsSeq
    <3>3. Delivered(t, TRUE) = x - 0 /\ x - 0 = x
      BY <1>4, <3>2 DEF Delivered
    <3> QED BY <1>4, <3>2, <3>3
  <2> QED BY <1>1, <1>2, <1>3, <1>4, <1>6, <2>2, <2>3, <2>4, BalanceSwapped
<1> QED
  BY <1>4, <1>5, <1>6

(* A part of a body changes no count. *)
LEMMA BalancePart ==
  ASSUME Struct, Balance, InPart, UNCHANGED design,
         \/ UNCHANGED <<stack, written>>
         \/ Goes /\ \E w : Adds(w) /\ w.k # "module"
  PROVE  Balance'
<1>1. WrittenOK /\ stack # << >> /\ InBody
  BY DEF Struct, InPart
<1>2. Longer /\ Written("module")' = Written("module")
  BY <1>1, NoHeadAdded
<1>3. CASE UNCHANGED stack
  BY <1>1, <1>2, <1>3, BalanceStays
<1>4. CASE Goes
  <2>1. PICK t : t = Top
    OBVIOUS
  <2>2. PICK f : Swapped(f) /\ stack' # << >> /\ Top' = f /\ f.of = t.of /\ f.stage = "body"
    BY <1>4, <2>1 DEF Goes
  <2>3. t.stage = "body"
    BY <1>1, <2>1 DEF InBody
  <2>4. Delivered(f, TRUE) = Delivered(t, TRUE)
    BY <2>2, <2>3 DEF Delivered
  <2> QED BY <1>1, <1>2, <2>1, <2>2, <2>3, <2>4, BalanceSwapped
<1> QED
  BY <1>3, <1>4

(* serialize_declaration is such a step. *)
LEMMA BalanceDeclaration ==
  ASSUME Struct, Balance, serialize_declaration
  PROVE  Balance'
<1>1. PICK w, p : w = Item(p.k, Top.of, p.of.id, all_names'[p.of.id], << >>) /\ p = NextOne
  OBVIOUS
<1>2. /\ InPart /\ UNCHANGED design /\ p.k \in {"port", "net"}
      /\ Fails \/ (Goes /\ Adds(w))
  BY <1>1, DeclarationStep
<1>3. w.k # "module"
  BY <1>1, <1>2 DEF Item
<1> QED
  BY <1>2, <1>3, BalancePart DEF Fails

(* serialize_component_instance is such a step. *)
LEMMA BalanceInstance ==
  ASSUME Struct, Balance, serialize_component_instance
  PROVE  Balance'
<1>1. PICK c : c = NextOne.of
  OBVIOUS
<1>2. /\ InPart /\ UNCHANGED design
      /\ Fails \/ Crash \/ (Goes /\ \E text : Adds(Item("instance", c.of, c.id, all_names[c.of], text)))
  BY <1>1, InstanceStep
<1>3. CASE Fails \/ Crash
  BY <1>2, <1>3, BalancePart DEF Fails, Crash
<1>4. CASE Goes /\ \E text : Adds(Item("instance", c.of, c.id, all_names[c.of], text))
  <2>1. PICK text : Adds(Item("instance", c.of, c.id, all_names[c.of], text))
    BY <1>4
  <2>2. PICK w : w = Item("instance", c.of, c.id, all_names[c.of], text)
    OBVIOUS
  <2>3. Adds(w) /\ w.k # "module"
    BY <2>1, <2>2 DEF Item
  <2> QED BY <1>2, <1>4, <2>3, BalancePart
<1> QED
  BY <1>2, <1>3, <1>4

(* serialize_endmodule changes no count: the frame below was on top of its *)
(* own dependencies while the body was written.                            *)
LEMMA BalanceEnd ==
  ASSUME Struct, Balance, serialize_endmodule
  PROVE  Balance'
<1>1. PICK w : w = Item("endmodule", Top.of, Top.of, all_names[Top.of], << >>)
  OBVIOUS
<1>2. /\ UNCHANGED design /\ Adds(w) /\ stack # << >> /\ InBody /\ ~ InBody' /\ Popped
  BY <1>1, EndStep
<1>3. w.k # "module" /\ WrittenOK
  BY <1>1 DEF Item, Struct
<1>4. Longer /\ Written("module")' = Written("module")
  BY <1>2, <1>3, NoHeadAdded
<1>5. PICK l \in Nat \ {0} : l = Len(stack)
  BY <1>2, TopFacts DEF Struct
<1>6. /\ Len(stack') = l - 1 /\ \A i \in 1 .. l - 1 : stack'[i] = stack[i]
      /\ (stack' = << >>) <=> (l = 1)
      /\ stack[l].stage = "body"
  BY <1>2, <1>5, TopFacts DEF Popped, InBody, Struct
<1>7. \A i \in 1 .. l - 1 : OnTop(i)' <=> OnTop(i)
  BY <1>2, <1>5, <1>6 DEF OnTop
<1>8. \A n : \A i \in 1 .. l - 1 : Ready(i, n)' = Ready(i, n)
  BY <1>2, <1>6, <1>7, ReadyStays
<1>9. \A n : Ready(l, n) = {}
  BY <1>6 DEF Ready
<1>10. \A n, i, k : (i \in 1 .. Len(stack') /\ k \in Ready(i, n)') <=> (i \in 1 .. Len(stack) /\ k \in Ready(i, n))
  <2> SUFFICES ASSUME NEW n, NEW i, NEW k
               PROVE (i \in 1 .. l - 1 /\ k \in Ready(i, n)') <=> (i \in 1 .. l /\ k \in Ready(i, n))
    BY <1>5, <1>6
  <2>1. CASE i \in 1 .. l - 1
    <3>1. i \in 1 .. l
      BY <1>5, <2>1
    <3> QED BY <1>8, <2>1, <3>1
  <2>2. CASE i = l
    <3>1. l \notin 1 .. l - 1
      BY <1>5
    <3> QED BY <1>9, <2>2, <3>1
  <2>3. i \notin 1 .. l - 1 /\ i # l => i \notin 1 .. l
    BY <1>5
  <2> QED BY <2>1, <2>2, <2>3
<1>11. RootStarted' <=> RootStarted
  BY <1>2, <1>5, <1>6 DEF RootStarted
<1>12. stack' # << >> => stack'[1].of = design.top
  <2> SUFFICES ASSUME stack' # << >> PROVE stack'[1].of = design.top
    OBVIOUS
  <2>1. stack[1].of = design.top
    BY <1>2 DEF Balance
  <2>2. 1 \in 1 .. l - 1
    BY <1>5, <1>6
  <2> QED BY <1>6, <2>1, <2>2
<1> QED
  BY <1>2, <1>3, <1>4, <1>10, <1>11, <1>12, BalanceSame

(* A definition starts: what its frame was ready for is now needed by it,  *)
(* and the component that it is written for is one more in the frame below.*)
LEMMA BalanceHead ==
  ASSUME Struct, Balance, serialize_module_head
  PROVE  Balance'
<1>1. PICK t, m, w : t = Top /\ m = t.of /\ w = Item("module", m, m, all_names[m], << >>)
  OBVIOUS
<1>2. /\ stack # << >> /\ t.stage = "head" /\ ~ InBody /\ UNCHANGED design /\ Adds(w)
      /\ m \in DOMAIN design.netlists
  BY <1>1, HeadStep
<1>3. PICK f : /\ Swapped(f) /\ stack' # << >> /\ Top' = f /\ f.of = m /\ f.stage = "body"
  BY <1>1, HeadStep
<1>4. WrittenOK /\ Longer /\ design \in Designs
  BY <1>2 DEF Struct, StackOK, Longer
<1>5. PICK l \in Nat \ {0} : l = Len(stack)
  BY <1>2, TopFacts DEF Struct
<1>6. /\ stack[l] = t /\ stack'[l] = f /\ Len(stack') = l
      /\ \A i \in 1 .. l - 1 : stack'[i] = stack[i]
  BY <1>1, <1>2, <1>3, <1>5, TopFacts DEF Swapped, Struct
<1>7. InBody'
  BY <1>3 DEF InBody
<1>8. PICK h : h = Len(written) + 1
  OBVIOUS

(* The new line. *)
<1>9. /\ Written("module")' = Written("module") \cup {h} /\ h \notin Written("module")
      /\ written'[h].of = m /\ \A i \in Written("module") : written'[i] = written[i]
  <2>1. PICK x \in Nat : x = Len(written)
    BY <1>4, WrittenGrows
  <2>2. /\ Len(written') = x + 1 /\ written'[x + 1] = w
        /\ \A i \in 1 .. x : written'[i] = written[i]
    BY <1>2, <2>1 DEF Adds
  <2>3. /\ Written("module") = {i \in 1 .. x : written[i].k = "module"}
        /\ Written("module")' = {i \in 1 .. x + 1 : written'[i].k = "module"}
    BY <1>4, <2>1, <2>2, WrittenGrows
  <2>4. w.k = "module" /\ w.of = m
    BY <1>1 DEF Item
  <2>5. \A i \in 1 .. x + 1 : i \in 1 .. x \/ i = x + 1
    BY <2>1
  <2>6. (\A i \in 1 .. x : i \in 1 .. x + 1) /\ x + 1 \in 1 .. x + 1 /\ x + 1 \notin 1 .. x
    BY <2>1
  <2> QED BY <1>8, <2>1, <2>2, <2>3, <2>4, <2>5, <2>6

(* The frames. *)
<1>10. \A i \in 1 .. l - 2 : ~ OnTop(i) /\ ~ OnTop(i)'
  BY <1>2, <1>5, <1>6 DEF OnTop
<1>11. /\ OnTop(l) /\ OnTop(l)'
       /\ l > 1 => ~ OnTop(l - 1) /\ OnTop(l - 1)'
  BY <1>2, <1>5, <1>6, <1>7 DEF OnTop
<1>12. ASSUME NEW n, NEW i \in 1 .. l - 2 PROVE Ready(i, n)' = Ready(i, n)
  <2>1. stack'[i] = stack[i] /\ (OnTop(i)' <=> OnTop(i))
    <3>1. i \in 1 .. l - 1
      BY <1>5
    <3> QED BY <1>6, <1>10, <3>1
  <2> QED BY <1>2, <2>1, ReadyStays
<1>13. \A n : Ready(l, n) = MakesSorted(m, n)
  <2>1. Arrived(l) = Len(SortedComponents(m))
    BY <1>1, <1>2, <1>6, <1>11 DEF Arrived, Delivered
  <2> QED BY <1>1, <1>2, <1>6, <2>1 DEF Ready, MakesSorted
<1>14. \A n : Ready(l, n)' = {}
  BY <1>3, <1>6 DEF Ready
<1>15. PICK x : l > 1 => x = Taken(stack[l - 1])
  OBVIOUS
<1>16. ASSUME l > 1, NEW n
       PROVE  /\ Ready(l - 1, n)' = Ready(l - 1, n) \cup (IF m = n THEN {x} ELSE {})
              /\ x \notin Ready(l - 1, n)
  <2>1. PICK g : g = stack[l - 1]
    OBVIOUS
  <2>2. l - 1 \in 1 .. l - 1 /\ l - 1 + 1 = l /\ l - 1 \in 1 .. l
    BY <1>5, <1>16
  <2>3. FrameOK(g) /\ Waits(g, t)
    <3>1. FrameOK(stack[l - 1]) /\ Waits(stack[l - 1], stack[l - 1 + 1])
      BY <1>5, <2>2 DEF Struct, StackOK
    <3> QED BY <1>6, <2>1, <2>2, <3>1
  <2>4. PICK y \in Nat : y = Taken(g) /\ y = x
    BY <1>4, <1>15, <1>16, <2>1, <2>3, AllIsSeq
  <2>5. g.stage = "dependencies" /\ y > 0 /\ SortedComponents(g.of)[y].of = m
    BY <1>1, <2>3, <2>4 DEF Waits
  <2>6. Arrived(l - 1) = y - 1
    BY <1>11, <1>16, <2>1, <2>4, <2>5 DEF Arrived, Delivered
  <2>7. Arrived(l - 1)' = y
    <3>1. Arrived(l - 1)' = Delivered(g, TRUE)'
      BY <1>6, <1>11, <1>16, <2>1, <2>2 DEF Arrived
    <3>2. Delivered(g, TRUE)' = Delivered(g, TRUE)
      BY <1>2, Static
    <3>3. Delivered(g, TRUE) = y - 0 /\ y - 0 = y
      BY <2>4, <2>5 DEF Delivered
    <3> QED BY <3>1, <3>2, <3>3
  <2>8. PICK s : s = SortedComponents(g.of)
    OBVIOUS
  <2>9. SortedComponents(stack[l - 1].of)' = s
    <3>1. \A o : SortedComponents(o)' = SortedComponents(o)
      BY <1>2, Static
    <3>2. (stack[l - 1].of)' = g.of
      BY <1>6, <2>1, <2>2
    <3>3. SortedComponents(stack[l - 1].of)' = SortedComponents(g.of)'
      BY <3>2
    <3> QED BY <2>8, <3>1, <3>3
  <2>10. Ready(l - 1, n) = {k \in 1 .. y - 1 : s[k].of = n}
    BY <2>1, <2>5, <2>6, <2>8 DEF Ready
  <2>11. Ready(l - 1, n)' = {k \in 1 .. y : s[k].of = n}
    <3>1. (stack[l - 1].stage)' # "body"
      BY <1>6, <2>1, <2>2, <2>5
    <3> QED BY <2>7, <2>9, <3>1 DEF Ready
  <2>12. (\A k \in 1 .. y : k \in 1 .. y - 1 \/ k = y) /\ (\A k \in 1 .. y - 1 : k \in 1 .. y)
         /\ y \in 1 .. y /\ y \notin 1 .. y - 1
    BY <2>5
  <2> QED BY <2>4, <2>5, <2>8, <2>10, <2>11, <2>12
<1>17. \A a, b : Makes(a, b)' = Makes(a, b)
  BY <1>2, Static DEF Makes
<1>18. stack[1].of = design.top /\ stack'[1].of = design.top
  <2>1. stack[1].of = design.top
    BY <1>2 DEF Balance
  <2>2. CASE l = 1
    BY <1>1, <1>3, <1>6, <2>1, <2>2
  <2>3. CASE l # 1
    <3>1. 1 \in 1 .. l - 1
      BY <1>5, <2>3
    <3> QED BY <1>6, <2>1, <3>1
  <2> QED BY <2>2, <2>3
<1>19. ~ RootStarted /\ (RootStarted' <=> l = 1)
  BY <1>2, <1>3, <1>5, <1>6, <1>7 DEF RootStarted
<1>20. l = 1 => m = design.top
  BY <1>1, <1>6, <1>18
<1>a. ASSUME NEW n, IsFiniteSet({l} \X MakesSorted(m, n))
      PROVE  /\ IsFiniteSet({h} \X Makes(m, n))
             /\ Cardinality({h} \X Makes(m, n)) = Cardinality({l} \X MakesSorted(m, n))
  <2>1. design \in Designs
    BY <1>4
  <2>2. m \in DOMAIN design.netlists
    BY <1>2
  <2> QED BY <1>a, <2>1, <2>2, MakesCount

(* The count. *)
<1>21. ASSUME NEW n \in DOMAIN design.netlists
       PROVE  (/\ IsFiniteSet(Definitions(n)) /\ IsFiniteSet(Needed(n)) /\ IsFiniteSet(Pending(n))
               /\ Cardinality(Definitions(n)) =
                    Cardinality(Needed(n)) + Cardinality(Pending(n))
                      + IF n = design.top /\ RootStarted THEN 1 ELSE 0)'
  <2>1. PICK D, N, P : D = Definitions(n) /\ N = Needed(n) /\ P = Pending(n)
    OBVIOUS
  <2>2. /\ IsFiniteSet(D) /\ IsFiniteSet(N) /\ IsFiniteSet(P)
        /\ Cardinality(D) = Cardinality(N) + Cardinality(P) + 0
    BY <1>19, <2>1 DEF Balance
  <2>3. Definitions(n)' = D \cup (IF m = n THEN {h} ELSE {}) /\ h \notin D
    BY <1>9, <2>1 DEF Definitions
  <2>4. PICK A : A = {h} \X Makes(m, n)
    OBVIOUS
  <2>5. PICK B : B = {l} \X MakesSorted(m, n)
    OBVIOUS
  <2>6. \A p : p \in Needed(n)' <=> p \in N \/ p \in A
    <3>1. \A i \in Written("module") : Makes(written[i].of, n)' = Makes(written[i].of, n)
      <4> SUFFICES ASSUME NEW i \in Written("module") PROVE Makes(written[i].of, n)' = Makes(written[i].of, n)
        OBVIOUS
      <4>1. PICK o : o = written[i].of
        OBVIOUS
      <4>2. (written[i].of)' = o /\ Makes(o, n)' = Makes(o, n)
        BY <1>9, <1>17, <4>1
      <4>3. Makes(written[i].of, n)' = Makes(o, n)
        BY <4>2
      <4> QED BY <4>1, <4>3
    <3>2. Makes(written[h].of, n)' = Makes(m, n)
      <4>1. (written[h].of)' = m
        BY <1>9
      <4>2. Makes(written[h].of, n)' = Makes(m, n)'
        BY <4>1
      <4> QED BY <1>17, <4>2
    <3>3. \A p : p \in Needed(n)' <=> \E i \in Written("module")' : \E k \in Makes(written[i].of, n)' : p = <<i, k>>
      BY NeededFacts
    <3>4. \A p : p \in N <=> \E i \in Written("module") : \E k \in Makes(written[i].of, n) : p = <<i, k>>
      BY <2>1, NeededFacts
    <3>5. \A p : p \in A <=> \E k \in Makes(m, n) : p = <<h, k>>
      BY <2>4
    <3> QED BY <1>9, <3>1, <3>2, <3>3, <3>4, <3>5
  <2>7. Needed(n)' = N \cup A
    <3>1. PICK T : T = Needed(n)'
      OBVIOUS
    <3> QED BY <2>6, <3>1
  <2>8. N \cap A = {}
    <3>1. \A p \in N : p[1] \in Written("module")
      BY <2>1, NeededFacts
    <3>2. \A p \in A : p[1] = h
      BY <2>4
    <3> QED BY <1>9, <3>1, <3>2
  <2>9. PICK R : R = {p \in P : p[1] # l}
    OBVIOUS
  <2>10. P = R \cup B /\ R \cap B = {}
    <3>1. \A p : p \in P <=> \E i \in 1 .. l : \E k \in Ready(i, n) : p = <<i, k>>
      BY <1>5, <2>1, PendingFacts
    <3>2. \A p : p \in B <=> \E k \in Ready(l, n) : p = <<l, k>>
      BY <1>13, <2>5
    <3>3. l \in 1 .. l
      BY <1>5
    <3>4. \A p \in B : p \in P /\ p[1] = l
      BY <3>1, <3>2, <3>3
    <3>5. \A p \in P : p[1] = l => p \in B
      BY <3>1, <3>2
    <3> QED BY <2>9, <3>4, <3>5
  <2>11. PICK X : X = IF m = n /\ l > 1 THEN {<<l - 1, x>>} ELSE {}
    OBVIOUS
  <2>12. \A p : p \in Pending(n)' <=> p \in R \/ p \in X
    <3>1. \A p : p \in P <=> \E i \in 1 .. l : \E k \in Ready(i, n) : p = <<i, k>>
      BY <1>5, <2>1, PendingFacts
    <3>2. \A p : p \in R <=> \E i \in 1 .. l - 1 : \E k \in Ready(i, n) : p = <<i, k>>
      <4>1. \A i \in 1 .. l : i # l <=> i \in 1 .. l - 1
        BY <1>5
      <4>2. \A i \in 1 .. l - 1 : i \in 1 .. l
        BY <1>5
      <4> QED BY <2>9, <3>1, <4>1, <4>2
    <3>3. \A p : p \in Pending(n)' <=> \E i \in 1 .. l : \E k \in Ready(i, n)' : p = <<i, k>>
      <4>1. Len(stack') = l
        BY <1>6
      <4> QED BY <4>1, PendingFacts
    <3>4. \A p : p \in Pending(n)' <=> \E i \in 1 .. l - 1 : \E k \in Ready(i, n)' : p = <<i, k>>
      <4>1. \A i \in 1 .. l : i = l \/ i \in 1 .. l - 1
        BY <1>5
      <4>2. \A i \in 1 .. l - 1 : i \in 1 .. l
        BY <1>5
      <4> QED BY <1>14, <3>3, <4>1, <4>2
    <3>5. CASE l = 1
      <4>1. \A i \in 1 .. l - 1 : FALSE
        BY <3>5
      <4>2. X = {}
        BY <2>11, <3>5
      <4> QED BY <3>2, <3>4, <4>1, <4>2
    <3>6. CASE l > 1
      <4>1. /\ \A i \in 1 .. l - 1 : i \in 1 .. l - 2 \/ i = l - 1
            /\ l - 1 \in 1 .. l - 1
        BY <1>5, <3>6
      <4>2. /\ Ready(l - 1, n)' = Ready(l - 1, n) \cup (IF m = n THEN {x} ELSE {})
            /\ x \notin Ready(l - 1, n)
        BY <1>16, <3>6
      <4>3. ASSUME NEW p, p \in Pending(n)' PROVE p \in R \/ p \in X
        <5>1. PICK i \in 1 .. l - 1 : \E k \in Ready(i, n)' : p = <<i, k>>
          BY <3>4, <4>3
        <5>2. CASE i \in 1 .. l - 2
          BY <1>12, <3>2, <5>1, <5>2
        <5>3. CASE i = l - 1
          <6>1. PICK k \in Ready(l - 1, n)' : p = <<l - 1, k>>
            BY <5>1, <5>3
          <6>2. CASE k \in Ready(l - 1, n)
            BY <3>2, <4>1, <6>1, <6>2
          <6>3. CASE m = n /\ k = x
            BY <2>11, <3>6, <6>1, <6>3
          <6> QED BY <4>2, <6>1, <6>2, <6>3
        <5> QED BY <4>1, <5>2, <5>3
      <4>4. ASSUME NEW p, p \in R PROVE p \in Pending(n)'
        <5>1. PICK i \in 1 .. l - 1 : \E k \in Ready(i, n) : p = <<i, k>>
          BY <3>2, <4>4
        <5>2. Ready(i, n) \subseteq Ready(i, n)'
          BY <1>12, <4>1, <4>2
        <5> QED BY <3>4, <5>1, <5>2
      <4>5. ASSUME NEW p, p \in X PROVE p \in Pending(n)'
        <5>1. m = n /\ p = <<l - 1, x>>
          BY <2>11, <4>5
        <5>2. x \in Ready(l - 1, n)'
          BY <4>2, <5>1
        <5> QED BY <3>4, <4>1, <5>1, <5>2
      <4> QED BY <4>3, <4>4, <4>5
    <3> QED BY <1>5, <3>5, <3>6
  <2>13. Pending(n)' = R \cup X
    <3>1. PICK T : T = Pending(n)'
      OBVIOUS
    <3> QED BY <2>12, <3>1
  <2>14. R \cap X = {}
    <3> SUFFICES ASSUME l > 1, m = n, <<l - 1, x>> \in R PROVE FALSE
      BY <2>11
    <3>1. PICK i \in 1 .. Len(stack) : \E k \in Ready(i, n) : <<l - 1, x>> = <<i, k>>
      BY <2>1, <2>9, PendingFacts
    <3>2. x \in Ready(l - 1, n)
      BY <3>1
    <3> QED BY <1>16, <3>2
  <2>15. IsFiniteSet(R) /\ IsFiniteSet(B)
    <3>1. R \in SUBSET P /\ B \in SUBSET P
      BY <2>10
    <3> QED BY <2>2, <3>1, FS_Subset
  <2>16. IsFiniteSet(A) /\ Cardinality(A) = Cardinality(B)
    <3>1. IsFiniteSet({l} \X MakesSorted(m, n))
      BY <2>5, <2>15, Zenon
    <3>2. /\ IsFiniteSet({h} \X Makes(m, n))
          /\ Cardinality({h} \X Makes(m, n)) = Cardinality({l} \X MakesSorted(m, n))
      BY <3>1, <1>a
    <3> QED BY <2>4, <2>5, <3>2, Zenon
  <2>17. Cardinality(P) = Cardinality(R) + Cardinality(B)
    BY <2>10, <2>15, DisjointUnion
  <2>18. IsFiniteSet(N \cup A) /\ Cardinality(N \cup A) = Cardinality(N) + Cardinality(A)
    BY <2>2, <2>8, <2>16, DisjointUnion
  <2>19. IsFiniteSet(X) /\ Cardinality(X) = IF m = n /\ l > 1 THEN 1 ELSE 0
    BY <2>11, FS_EmptySet, FS_Singleton
  <2>20. IsFiniteSet(R \cup X) /\ Cardinality(R \cup X) = Cardinality(R) + Cardinality(X)
    BY <2>14, <2>15, <2>19, DisjointUnion
  <2>21. PICK Y : Y = IF m = n THEN {h} ELSE {}
    OBVIOUS
  <2>22. IsFiniteSet(Y) /\ Cardinality(Y) = (IF m = n THEN 1 ELSE 0) /\ D \cap Y = {}
    BY <2>3, <2>21, FS_EmptySet, FS_Singleton
  <2>23. IsFiniteSet(D \cup Y) /\ Cardinality(D \cup Y) = Cardinality(D) + Cardinality(Y)
    BY <2>2, <2>22, DisjointUnion
  <2>24. PICK d, o, a, r \in Nat : d = Cardinality(D) /\ o = Cardinality(N) /\ a = Cardinality(A) /\ r = Cardinality(R)
    BY <2>2, <2>15, <2>16, FS_CardinalityType
  <2>25. PICK u, v \in 0 .. 1 : u = (IF m = n THEN 1 ELSE 0) /\ v = (IF m = n /\ l > 1 THEN 1 ELSE 0)
    OBVIOUS
  <2>26. PICK z \in 0 .. 1 : z = (IF n = design.top /\ l = 1 THEN 1 ELSE 0)
    OBVIOUS
  <2>27. u = v + z
    <3>1. CASE l = 1
      BY <1>20, <2>25, <2>26, <3>1
    <3>2. CASE l > 1
      BY <2>25, <2>26, <3>2
    <3> QED BY <1>5, <3>1, <3>2
  <2>28. d = o + (r + a) + 0
    BY <2>2, <2>16, <2>17, <2>24
  <2>29. d + u = (o + a) + (r + v) + z
    BY <2>24, <2>27, <2>28
  <2>30. (IF n = design.top /\ RootStarted THEN 1 ELSE 0)' = z
    <3>1. design' = design
      BY <1>2
    <3>2. CASE l = 1
      BY <1>19, <2>26, <3>1, <3>2
    <3>3. CASE l # 1
      BY <1>19, <2>26, <3>1, <3>3
    <3> QED BY <3>2, <3>3
  <2>31. /\ Definitions(n)' = D \cup Y
         /\ Cardinality(D \cup Y) = d + u
         /\ Cardinality(N \cup A) = o + a
         /\ Cardinality(R \cup X) = r + v
    BY <2>3, <2>18, <2>19, <2>20, <2>21, <2>22, <2>23, <2>24, <2>25
  <2>32. IsFiniteSet(Definitions(n))' /\ IsFiniteSet(Needed(n))' /\ IsFiniteSet(Pending(n))'
    BY <2>7, <2>13, <2>18, <2>20, <2>23, <2>31
  <2>33. Cardinality(Definitions(n))' = d + u /\ Cardinality(Needed(n))' = o + a /\ Cardinality(Pending(n))' = r + v
    BY <2>7, <2>13, <2>31
  <2> QED BY <2>29, <2>30, <2>32, <2>33
<1>22. design' = design
  BY <1>2
<1> QED
  BY <1>3, <1>18, <1>21, <1>22 DEF Balance

(* Balance holds when the serializer is called. *)
LEMMA BalanceInit ==
  ASSUME VerilogInit
  PROVE  Balance
<1>1. PICK f : f = Frame(design.top)
  OBVIOUS
<1>2. stack = <<f>> /\ written = << >> /\ Init /\ design \in Designs
  BY <1>1 DEF VerilogInit
<1>3. f = [of |-> design.top, stage |-> "dependencies", todo |-> SortedComponents(design.top)]
  BY <1>1 DEF Frame, dependencies
<1>4. f.of = design.top /\ f.stage = "dependencies"
  BY <1>3
<1>5. Taken(f) = 0
  <2>1. design.top \in DOMAIN design.netlists
    BY <1>2, DesignFacts
  <2> QED BY <1>2, <1>3, <2>1, WholeFrame
<1>6. Len(stack) = 1 /\ stack[1] = f /\ stack # << >>
  BY <1>2
<1>7. ~ InBody
  <2>1. Top = f
    BY <1>6 DEF Top, Last
  <2> QED BY <1>4, <2>1 DEF InBody
<1>8. \A n : Pending(n) = {}
  <2>1. OnTop(1)
    BY <1>6 DEF OnTop
  <2>2. Arrived(1) = 0
    BY <1>4, <1>5, <1>6, <2>1 DEF Arrived, Delivered
  <2>3. ASSUME NEW n, NEW k \in Ready(1, n) PROVE FALSE
    <3>1. k \in 1 .. Arrived(1)
      BY <1>4, <1>6, <2>3 DEF Ready
    <3>2. k \in 1 .. 0
      BY <2>2, <3>1
    <3> QED BY <3>2
  <2>4. ASSUME NEW n, NEW p \in Pending(n) PROVE FALSE
    <3>1. PICK i \in 1 .. Len(stack) : \E k \in Ready(i, n) : p = <<i, k>>
      BY <2>4, PendingFacts
    <3>2. i = 1
      BY <1>6, <3>1
    <3> QED BY <2>3, <3>1, <3>2
  <2> QED BY <2>4
<1>9. Written("module") = {}
  BY <1>2 DEF Written
<1>10. \A n : Definitions(n) = {} /\ Needed(n) = {}
  BY <1>9 DEF Definitions, Needed
<1>11. ~ RootStarted
  BY <1>6, <1>7 DEF RootStarted
<1>12. IsFiniteSet({}) /\ Cardinality({}) = 0
  BY FS_EmptySet
<1>13. stack # << >> => stack[1].of = design.top
  BY <1>4, <1>6
<1>14. ASSUME NEW n
       PROVE  /\ IsFiniteSet(Definitions(n)) /\ IsFiniteSet(Needed(n)) /\ IsFiniteSet(Pending(n))
              /\ Cardinality(Definitions(n)) =
                   Cardinality(Needed(n)) + Cardinality(Pending(n))
                     + IF n = design.top /\ RootStarted THEN 1 ELSE 0
  <2>1. Definitions(n) = {} /\ Needed(n) = {} /\ Pending(n) = {}
    BY <1>8, <1>10
  <2>2. (IF n = design.top /\ RootStarted THEN 1 ELSE 0) = 0
    BY <1>11
  <2> QED BY <1>12, <2>1, <2>2
<1> QED
  BY <1>13, <1>14 DEF Balance
-----------------------------------------------------------------------------
(* What the invariant says of the text. *)

(* TextInv and PartsInv hold when the serializer is called. *)
LEMMA TextInit ==
  ASSUME VerilogInit
  PROVE  TextInv /\ PartsInv
<1>1. /\ written = << >> /\ design \in Designs /\ stack = <<Frame(design.top)>>
      /\ all_names = << >>
  BY DEF VerilogInit, Init
<1>2. ~ InBody
  <2>1. PICK f : f = Frame(design.top)
    OBVIOUS
  <2>2. Top = f /\ f.stage = "dependencies"
    BY <1>1, <2>1 DEF Top, Last, Frame
  <2> QED BY <2>2 DEF InBody
<1>3. Len(written) = 0 /\ DOMAIN all_names = {}
  BY <1>1
<1>4. TextInv
  BY <1>2, <1>3 DEF TextInv, Lines, Blocks, LineNames, BodyOpen
<1>5. PartsInv
  BY <1>3 DEF PartsInv, PartsInOrder, PartsDistinct, None
<1> QED
  BY <1>4, <1>5

(* Every step keeps TextInv, PartsInv and Balance. *)
LEMMA TextStep ==
  ASSUME VerilogInv, VerilogNext
  PROVE  TextInv' /\ PartsInv' /\ Balance'
<1>0. Struct /\ ClashInv /\ TextInv /\ PartsInv /\ Balance
  BY DEF VerilogInv
<1>1. CASE serialize_dependency
  BY <1>0, <1>1, TextDependency, PartsDependency, BalanceDependency
<1>2. CASE name_module
  BY <1>0, <1>2, TextNameModule, PartsNameModule, BalanceNameModule
<1>3. CASE serialize_module_head
  BY <1>0, <1>3, TextHead, PartsHead, BalanceHead
<1>4. CASE serialize_declaration
  BY <1>0, <1>4, TextDeclaration, PartsDeclaration, BalanceDeclaration
<1>5. CASE serialize_component_instance
  BY <1>0, <1>5, TextInstance, PartsInstance, BalanceInstance
<1>6. CASE serialize_endmodule
  BY <1>0, <1>6, TextEnd, PartsEnd, BalanceEnd
<1> QED
  BY <1>1, <1>2, <1>3, <1>4, <1>5, <1>6 DEF VerilogNext

(* The definition that a declaration belongs to, and its place in there. *)
LEMMA DeclarationLine ==
  ASSUME WrittenOK, Lines, NEW i \in Written("port") \cup Written("net")
  PROVE  /\ written[HeadOf(i)].of \in DOMAIN design.netlists
         /\ i \in Nat /\ HeadOf(i) \in Nat
         /\ i - HeadOf(i) \in 1 .. Len(Body(written[HeadOf(i)].of))
         /\ PartId(written[HeadOf(i)].of, i - HeadOf(i)) \in DOMAIN all_names
         /\ written[i].name = all_names[PartId(written[HeadOf(i)].of, i - HeadOf(i))]
<1>1. i \in 1 .. Len(written) /\ written[i].k \in {"port", "net"} /\ Len(written) \in Nat
  BY OwnElements DEF Written, WrittenOK
<1>2. PICK h \in 1 .. Len(written) : InBlock(i, h)
  BY <1>1 DEF Lines, Blocks
<1>3. HeadOf(i) = h
  BY <1>1, <1>2, HeadOfBlock
<1>4. PICK n, q : n = written[h].of /\ q = i - h
  OBVIOUS
<1>5. written[h].k = "module" /\ Fits(written[i], n, q)
  BY <1>1, <1>2, <1>4, BlockRange
<1>6. n \in DOMAIN design.netlists
  BY <1>4, <1>5 DEF Lines, LineNames, LineNamed
<1>7. q \in 1 .. Len(Body(n)) /\ written[i].id = PartId(n, q)
  BY <1>1, <1>5 DEF Fits, PartId
<1>8. written[i].id \in DOMAIN all_names /\ written[i].name = all_names[written[i].id]
  BY <1>1 DEF Lines, LineNames, LineNamed
<1>9. i \in Nat /\ h \in Nat
  BY <1>1, <1>2
<1> QED
  BY <1>3, <1>4, <1>6, <1>7, <1>8, <1>9

(* Names of modules are those of netlists, all in the global level. *)
LEMMA ModuleNames ==
  ASSUME Struct, Lines, NEW i \in Written("module"), NEW j \in Written("module"),
         written[i].name = written[j].name
  PROVE  written[i].of = written[j].of
<1>1. i \in 1 .. Len(written) /\ j \in 1 .. Len(written)
  BY OwnElements DEF Written, WrittenOK, Struct
<1>2. PICK a, b : a = written[i].of /\ b = written[j].of
  OBVIOUS
<1>3. /\ a \in DOMAIN all_names /\ a \in DOMAIN design.netlists /\ written[i].name = all_names[a]
      /\ b \in DOMAIN all_names /\ b \in DOMAIN design.netlists /\ written[j].name = all_names[b]
  BY <1>1, <1>2 DEF Lines, LineNames, LineNamed, Written
<1>4. home[a] = 1 /\ home[b] = 1
  BY <1>3 DEF Struct, Levels
<1>5. Shadowing
  BY DEF Struct, IInv
<1>6. Folded(all_names[a]) = Folded(all_names[b])
  BY <1>3
<1> QED
  BY <1>2, <1>3, <1>4, <1>5, <1>6 DEF Shadowing

(* The module of an instance ends in front of it, and has the ports that   *)
(* the instance names.                                                     *)
LEMMA InstancesDefined ==
  ASSUME Struct, Lines, NEW i \in Written("instance")
  PROVE  \E j \in Written("endmodule") :
           /\ j < i /\ written[j].of = written[i].of /\ written[j].name = written[i].name
           /\ \A p \in DOMAIN written[i].conn :
                \E l \in HeadOf(j) .. j : written[l].k = "port" /\ written[l].id = p
                                          /\ written[l].name = written[i].conn[p].port
<1>0. WrittenOK /\ design \in Designs /\ Blocks /\ LineNames
  BY DEF Struct, StackOK, Lines
<1>1. i \in 1 .. Len(written) /\ written[i].k = "instance"
  BY OwnElements DEF Written, WrittenOK, Struct
<1>2. PICK n : n = written[i].of
  OBVIOUS
<1>3. /\ n \in DOMAIN all_names /\ written[i].name = all_names[n] /\ n \in DOMAIN design.netlists
      /\ \A p \in DOMAIN written[i].conn :
           /\ p \in DOMAIN all_names /\ written[i].conn[p].port = all_names[p]
           /\ \E x \in 1 .. Len(Netlist(n).ports) : Netlist(n).ports[x].id = p
      /\ EndedBefore(i, n)
  BY <1>0, <1>1, <1>2 DEF LineNames, LineNamed
<1>4. PICK j \in Written("endmodule") : j < i /\ written[j].of = n
  BY <1>3 DEF EndedBefore
<1>5. written[j].name = all_names[n]
  <2>1. j \in 1 .. Len(written) /\ written[j].k = "endmodule"
    BY <1>0, OwnElements DEF Written, WrittenOK
  <2> QED BY <1>0, <1>4, <2>1 DEF LineNames, LineNamed
<1>6. ASSUME NEW p \in DOMAIN written[i].conn
      PROVE  \E l \in HeadOf(j) .. j : written[l].k = "port" /\ written[l].id = p
                                       /\ written[l].name = written[i].conn[p].port
  <2>1. PICK x \in 1 .. Len(Netlist(n).ports) : Netlist(n).ports[x].id = p
    BY <1>3
  <2>2. \E l \in HeadOf(j) .. j : written[l].k = "port" /\ written[l].id = p /\ written[l].name = all_names[p]
    BY <1>0, <1>4, <2>1, EndedHasPorts
  <2> QED BY <1>3, <2>2
<1> QED
  BY <1>2, <1>3, <1>4, <1>5, <1>6

(* Two declarations of one definition are two parts of one body. *)
LEMMA DeclarationsDiffer ==
  ASSUME Struct, Lines, PartsInv, NEW i \in Written("port") \cup Written("net"),
         NEW j \in Written("port") \cup Written("net"), i < j, HeadOf(i) = HeadOf(j)
  PROVE  written[i].name # written[j].name
<1>1. WrittenOK
  BY DEF Struct
<1>2. PICK h, n : h = HeadOf(i) /\ n = written[h].of
  OBVIOUS
<1>3. /\ n \in DOMAIN design.netlists /\ i \in Nat /\ h \in Nat
      /\ i - h \in 1 .. Len(Body(n)) /\ PartId(n, i - h) \in DOMAIN all_names
      /\ written[i].name = all_names[PartId(n, i - h)]
  BY <1>1, <1>2, DeclarationLine
<1>4. /\ j \in Nat /\ j - h \in 1 .. Len(Body(n)) /\ PartId(n, j - h) \in DOMAIN all_names
      /\ written[j].name = all_names[PartId(n, j - h)]
  BY <1>1, <1>2, DeclarationLine
<1>5. i - h # j - h
  BY <1>3, <1>4
<1> QED
  BY <1>3, <1>4, <1>5 DEF PartsInv, PartsDistinct

(* At the end no frame is left, and nothing is pending. *)
LEMMA CountsDone ==
  ASSUME Balance, Done, NEW n \in DOMAIN design.netlists
  PROVE  Cardinality(Definitions(n)) = Cardinality(Needed(n)) + IF n = design.top THEN 1 ELSE 0
<1>1. stack = << >> /\ RootStarted
  BY DEF Done, RootStarted
<1>2. Pending(n) = {}
  <2>1. \A i \in 1 .. Len(stack) : FALSE
    BY <1>1
  <2> QED BY <2>1, PendingFacts
<1>3. Cardinality(Pending(n)) = 0
  BY <1>2, FS_EmptySet
<1>4. PICK d, o \in Nat : d = Cardinality(Definitions(n)) /\ o = Cardinality(Needed(n))
  BY FS_CardinalityType DEF Balance
<1>5. d = o + 0 + IF n = design.top THEN 1 ELSE 0
  BY <1>1, <1>3, <1>4 DEF Balance
<1> QED
  BY <1>4, <1>5
-----------------------------------------------------------------------------
(* FilesInv is kept by every action. *)

(* Lands is a matter of the design. *)
LEMMA LandsStatic ==
  ASSUME UNCHANGED design
  PROVE  \A n, f : Lands(n, f)' <=> Lands(n, f)
BY DEF Lands

(* A step that writes nothing. *)
LEMMA LandStays ==
  ASSUME WrittenOK, LinesLand, UNCHANGED <<design, written>>
  PROVE  LinesLand'
<1>1. \A i, h : Under(i, h)' <=> Under(i, h)
  BY DEF Under
<1>2. ASSUME NEW i \in 1 .. Len(written), NEW h \in 1 .. Len(written), Under(i, h)
      PROVE  written[i].file # Closed <=> (h = 1 \/ Lands(written[h].of, First)')
  <2>1. written # << >>
    BY <1>2
  <2>2. PICK f, n : f = First /\ n = written[h].of
    OBVIOUS
  <2>3. First' = f
    BY <2>1, <2>2 DEF First
  <2>4. Lands(written[h].of, First)' <=> Lands(n, f)
    <3>1. (written[h].of)' = n
      BY <2>2
    <3>2. Lands(written[h].of, First)' <=> Lands(n, f)'
      BY <2>3, <3>1 DEF Lands
    <3> QED BY <3>2, LandsStatic
  <2>5. written[i].file # Closed <=> (h = 1 \/ Lands(n, f))
    BY <1>2, <2>2 DEF LinesLand
  <2> QED BY <2>4, <2>5
<1>3. ASSUME NEW i \in 1 .. Len(written'), NEW h \in 1 .. Len(written'), Under(i, h)'
      PROVE  (written[i].file # Closed <=> (h = 1 \/ Lands(written[h].of, First)))'
  <2>1. Under(i, h) /\ i \in 1 .. Len(written) /\ h \in 1 .. Len(written) /\ written'[i].file = written[i].file
    BY <1>1, <1>3
  <2>2. written[i].file # Closed <=> (h = 1 \/ Lands(written[h].of, First)')
    BY <1>2, <2>1
  <2>3. Lands(written[h].of, First)' <=> Lands(written[h].of, First)'
    OBVIOUS
  <2>4. Closed' = Closed
    BY DEF Closed
  <2> QED BY <2>1, <2>2, <2>4
<1> QED
  BY <1>3 DEF LinesLand

(* A step that leaves the stack, the text and the files alone. *)
LEMMA FilesStay ==
  ASSUME WrittenOK, FilesInv, UNCHANGED <<design, stack, written, ioVars>>, NamesGrow
  PROVE  FilesInv'
<1>1. PICK t, f : t = Top /\ f = First
  OBVIOUS
<1>2. Top' = t /\ (InBody' <=> InBody)
  BY <1>1, SameTop
<1>3. First' = f /\ (Inside' <=> Inside)
  BY <1>1, <1>2 DEF First, Inside
<1>4. UNCHANGED <<dirs, scope, top_clear, file>>
  BY DEF ioVars
<1>5. f \in DOMAIN all_names => TopDirs(First)' = TopDirs(f)
  <2>1. TopDirs(First)' = TopDirs(f)'
    BY <1>3 DEF TopDirs
  <2> QED BY <2>1 DEF TopDirs, NamesGrow
<1>6. DirsOK'
  <2> SUFFICES ASSUME design.io.files PROVE DirsOK'
    BY DEF DirsOK
  <2>1. IF Inside' THEN \E s : scope' = <<s>> ELSE scope' = << >>
    BY <1>3, <1>4 DEF FilesInv, DirsOK
  <2>2. CASE top_clear
    <3>1. /\ written = << >> => stack # << >> /\ t.stage = "head"
          /\ f \in DOMAIN all_names /\ f \in DOMAIN design.netlists
          /\ dirs = {<< >>} \cup TopDirs(f)
      BY <1>1, <2>2 DEF FilesInv, DirsOK
    <3>2. f \in DOMAIN all_names'
      BY <3>1 DEF NamesGrow
    <3> QED BY <1>2, <1>3, <1>4, <1>5, <2>1, <2>2, <3>1, <3>2 DEF DirsOK
  <2>3. CASE ~ top_clear
    <3>1. dirs = {<< >>} /\ written = << >> /\ ~ Inside
      BY <2>3 DEF FilesInv, DirsOK
    <3> QED BY <1>3, <1>4, <2>1, <2>3, <3>1 DEF DirsOK
  <2> QED BY <2>2, <2>3
<1>7. FileOpen'
  <2>1. Lands(Top.of, First)' <=> Lands(t.of, f)
    <3>1. Lands(Top.of, First)' <=> Lands(t.of, f)'
      BY <1>2, <1>3 DEF Lands
    <3> QED BY <3>1, LandsStatic
  <2>2. /\ ~ design.io.files => file = Stream
        /\ stack # << >> /\ t.stage = "head" => (file # Closed <=> (written = << >> \/ Lands(t.of, f)))
        /\ InBody => written # << >> /\ written[Len(written)].file = file
    BY <1>1 DEF FilesInv, FileOpen
  <2> QED BY <1>2, <1>4, <2>1, <2>2 DEF FileOpen, Stream, Closed
<1>8. LinesLand'
  BY LandStays DEF FilesInv
<1> QED
  BY <1>6, <1>7, <1>8 DEF FilesInv

(* FilesInv is about these variables only. *)
LEMMA FilesStutter ==
  ASSUME Struct, FilesInv, UNCHANGED <<nameVars, ioVars, textVars>>
  PROVE  FilesInv'
BY FilesStay DEF Struct, textVars, nameVars, NamesGrow

(* FilesInv holds when the serializer is called. *)
LEMMA FilesInit ==
  ASSUME VerilogInit
  PROVE  FilesInv
<1>1. /\ stack = <<Frame(design.top)>> /\ written = << >> /\ IOInit(design.io)
  BY DEF VerilogInit
<1>2. PICK f : f = Frame(design.top)
  OBVIOUS
<1>3. Top = f /\ f.stage = "dependencies"
  BY <1>1, <1>2 DEF Top, Last, Frame
<1>4. ~ Inside /\ ~ InBody /\ Top.stage = "dependencies"
  BY <1>3 DEF Inside, InBody
<1>5. /\ dirs = {<< >>} /\ scope = << >> /\ ~ top_clear
      /\ ~ design.io.files => file = Stream
  BY <1>1 DEF IOInit
<1>6. DirsOK /\ FileOpen
  BY <1>1, <1>4, <1>5 DEF DirsOK, FileOpen
<1>7. LinesLand
  <2>1. Len(written) = 0
    BY <1>1
  <2> QED BY <2>1 DEF LinesLand
<1> QED
  BY <1>6, <1>7 DEF FilesInv

(* serialize_dependency opens no file. *)
LEMMA FilesDependency ==
  ASSUME Struct, FilesInv, serialize_dependency
  PROVE  FilesInv'
<1>1. UNCHANGED <<nameVars, ioVars, design, written>>
  BY DEF serialize_dependency
<1>2. Top.stage = "dependencies" /\ Top'.stage = "dependencies" /\ stack' # << >>
  BY DependencyStep
<1>3. ~ Inside /\ ~ Inside' /\ ~ InBody'
  BY <1>2 DEF Inside, InBody
<1>4. UNCHANGED <<dirs, scope, top_clear, file, all_names>>
  BY <1>1 DEF ioVars, nameVars
<1>5. PICK f : f = First
  OBVIOUS
<1>6. ASSUME design.io.files PROVE DirsOK'
  <2>1. scope' = << >>
    BY <1>3, <1>4, <1>6 DEF FilesInv, DirsOK
  <2>2. CASE top_clear
    <3>1. written # << >>
      BY <1>2, <1>6, <2>2 DEF FilesInv, DirsOK
    <3>2. First' = f
      BY <1>1, <1>5, <3>1 DEF First
    <3>3. TopDirs(First)' = TopDirs(f)
      BY <1>1, <1>4, <3>2 DEF TopDirs
    <3>4. f \in DOMAIN all_names /\ f \in DOMAIN design.netlists /\ dirs = {<< >>} \cup TopDirs(f)
      BY <1>5, <1>6, <2>2 DEF FilesInv, DirsOK
    <3> QED BY <1>1, <1>3, <1>4, <2>1, <2>2, <3>1, <3>2, <3>3, <3>4 DEF DirsOK
  <2>3. CASE ~ top_clear
    <3>1. dirs = {<< >>} /\ written = << >>
      BY <1>6, <2>3 DEF FilesInv, DirsOK
    <3> QED BY <1>1, <1>3, <1>4, <2>1, <2>3, <3>1 DEF DirsOK
  <2> QED BY <2>2, <2>3
<1>7. DirsOK'
  <2>1. CASE design.io.files
    BY <1>6, <2>1
  <2>2. CASE ~ design.io.files
    BY <1>1, <2>2 DEF DirsOK
  <2> QED BY <2>1, <2>2
<1>8. FileOpen'
  <2>1. ~ design.io.files => file = Stream
    BY DEF FilesInv, FileOpen
  <2> QED BY <1>1, <1>2, <1>3, <1>4, <2>1 DEF FileOpen, Stream
<1>9. LinesLand'
  BY <1>1, LandStays DEF FilesInv, Struct
<1> QED
  BY <1>7, <1>8, <1>9 DEF FilesInv

(* What a push does at a time when nothing is in scope. *)
LEMMA HierarchyPushed ==
  ASSUME NEW io, io.files, NEW name, scope = << >>, dirs = {<< >>} \/ top_clear, hierarchy_push(io, name)
  PROVE  /\ scope' = <<name>> /\ top_clear'
         /\ IF top_clear
            THEN /\ dirs' = dirs
                 /\ (file' # Closed) <=> (IF io.flat /\ ~ io.to_top_dir THEN << >> ELSE <<name>>) \in dirs
            ELSE /\ file' # Closed
                 /\ dirs' = {<< >>} \cup IF io.to_top_dir THEN {<<name>>} ELSE {}
<1>1. PICK dir : dir = top_dir(io, name)
  OBVIOUS
<1>2. /\ scope' = Append(scope, name) /\ dirs' = Cleared(io, dir) /\ top_clear' = TRUE
      /\ file' = IF dir \in dirs' THEN Append(dir, name) ELSE Closed
  BY <1>1 DEF hierarchy_push
<1>3. Append(<< >>, name) = <<name>> /\ Append(scope, name) = <<name>> /\ Append(scope, name)[1] = name
  OBVIOUS
<1>4. dir = << >> \/ dir = <<name>>
  BY <1>1, <1>3 DEF top_dir
<1>5. Append(dir, name) # Closed
  <2>1. Append(<< >>, name) # << >>
    OBVIOUS
  <2>2. Append(<<name>>, name) # << >>
    OBVIOUS
  <2> QED BY <1>4, <2>1, <2>2 DEF Closed
<1>6. file' # Closed <=> dir \in dirs'
  BY <1>2, <1>5
<1>7. CASE top_clear
  <2>1. dirs' = dirs
    BY <1>2, <1>7 DEF Cleared
  <2>2. dir = IF io.flat /\ ~ io.to_top_dir THEN << >> ELSE <<name>>
    BY <1>1, <1>3, <1>7 DEF top_dir
  <2> QED BY <1>2, <1>3, <1>6, <1>7, <2>1, <2>2
<1>8. CASE ~ top_clear
  <2>1. dirs' = {d \in {<< >>} : ~ (io.do_clear_top /\ IsPrefix(dir, d))} \cup {dir}
    BY <1>2, <1>8 DEF Cleared
  <2>2. CASE io.to_top_dir
    <3>1. dir = <<name>>
      BY <1>1, <1>8, <2>2 DEF top_dir
    <3>2. ~ IsPrefix(<<name>>, << >>)
      BY DEF IsPrefix
    <3>3. dirs' = {<< >>} \cup {<<name>>}
      BY <2>1, <3>1, <3>2
    <3> QED BY <1>2, <1>3, <1>6, <1>8, <2>2, <3>1, <3>3
  <2>3. CASE ~ io.to_top_dir
    <3>1. dir = << >>
      BY <1>1, <1>8, <2>3 DEF top_dir
    <3>2. dirs' = {<< >>}
      BY <2>1, <3>1
    <3> QED BY <1>2, <1>3, <1>6, <1>8, <2>3, <3>1, <3>2
  <2> QED BY <2>2, <2>3
<1> QED
  BY <1>7, <1>8

(* name_module enters the directory of the module, and opens its file when *)
(* there is such a directory.                                              *)
LEMMA FilesNameModule ==
  ASSUME Struct, FilesInv, name_module
  PROVE  FilesInv'
<1>1. UNCHANGED <<design, written>>
  BY DEF name_module
<1>2. PICK t, n : t = Top /\ n = t.of
  OBVIOUS
<1>3. /\ Struct' /\ stack # << >> /\ t.stage = "dependencies" /\ n \in DOMAIN design.netlists
      /\ Keeps(n) \/ Throws(n) \/ Gets(n, Netlist(n).name, 1)
      /\ \/ occupied' # NoError /\ stack' = stack
         \/ occupied' = NoError /\ stack' # << >> /\ Top'.of = n /\ Top'.stage = "head"
  BY <1>2, NameModuleStep
<1>4. NamesGrow /\ WrittenOK
  BY <1>3, GrowsFacts DEF Struct
<1>5. ~ Inside
  BY <1>2, <1>3 DEF Inside
<1>6. CASE occupied' # NoError
  <2>1. UNCHANGED <<ioVars, stack>>
    BY <1>6 DEF name_module
  <2> QED BY <1>1, <1>4, <2>1, FilesStay
<1>7. CASE occupied' = NoError
  <2>1. /\ stack' # << >> /\ Top'.of = n /\ Top'.stage = "head"
        /\ hierarchy_push(design.io, all_names'[n])
    <3>1. hierarchy_push(design.io, all_names'[n])
      BY <1>2, <1>7 DEF name_module
    <3> QED BY <1>3, <1>7, <3>1
  <2>2. Inside' /\ ~ InBody'
    BY <2>1 DEF Inside, InBody
  <2>3. LinesLand'
    BY <1>1, <1>4, LandStays DEF FilesInv
  <2>4. CASE ~ design.io.files
    <3>1. UNCHANGED file /\ file = Stream
      BY <2>1, <2>4 DEF hierarchy_push, FilesInv, FileOpen, ioVars
    <3>2. Stream # Closed
      BY DEF Stream, Closed
    <3>3. Lands(Top.of, First)'
      BY <1>1, <2>4 DEF Lands
    <3>4. FileOpen'
      BY <1>1, <2>2, <3>1, <3>2, <3>3 DEF FileOpen, Stream, Closed
    <3>5. DirsOK'
      BY <1>1, <2>4 DEF DirsOK
    <3> QED BY <2>3, <3>4, <3>5 DEF FilesInv
  <2>5. CASE design.io.files
    <3>1. PICK io, name : io = design.io /\ name = all_names'[n]
      OBVIOUS
    <3>2. scope = << >> /\ (dirs = {<< >>} \/ top_clear)
      BY <1>5, <2>5 DEF FilesInv, DirsOK
    <3>3. /\ scope' = <<name>> /\ top_clear'
          /\ IF top_clear
             THEN /\ dirs' = dirs
                  /\ (file' # Closed) <=> (IF io.flat /\ ~ io.to_top_dir THEN << >> ELSE <<name>>) \in dirs
             ELSE /\ file' # Closed
                  /\ dirs' = {<< >>} \cup IF io.to_top_dir THEN {<<name>>} ELSE {}
      <4>1. hierarchy_push(io, name) /\ io.files
        BY <2>1, <2>5, <3>1
      <4> QED BY <3>2, <4>1, HierarchyPushed
    <3>4. n \in DOMAIN all_names' /\ design.io' = io /\ (design.netlists)' = design.netlists
      <4>1. Top'.of \in DOMAIN all_names'
        BY <1>3, <2>1 DEF Struct, DependenciesFirst
      <4> QED BY <1>1, <2>1, <3>1, <4>1
    <3>5. CASE ~ top_clear
      <4>1. written = << >>
        BY <2>5, <3>5 DEF FilesInv, DirsOK
      <4>2. First' = n
        BY <1>1, <2>1, <4>1 DEF First
      <4>3. TopDirs(First)' = IF io.to_top_dir THEN {<<name>>} ELSE {}
        BY <3>1, <3>4, <4>2 DEF TopDirs
      <4>4. DirsOK'
        BY <1>3, <2>1, <2>2, <3>3, <3>4, <3>5, <4>2, <4>3 DEF DirsOK
      <4>5. FileOpen'
        BY <1>1, <2>2, <2>5, <3>3, <3>5, <4>1 DEF FileOpen, Closed
      <4> QED BY <2>3, <4>4, <4>5 DEF FilesInv
    <3>6. CASE top_clear
      <4>1. PICK f : f = First
        OBVIOUS
      <4>2. /\ written # << >> /\ f \in DOMAIN all_names /\ f \in DOMAIN design.netlists
            /\ dirs = {<< >>} \cup TopDirs(f)
        BY <1>2, <1>3, <2>5, <3>6, <4>1 DEF FilesInv, DirsOK
      <4>3. First' = f
        BY <1>1, <4>1, <4>2 DEF First
      <4>4. f \in DOMAIN all_names' /\ all_names'[f] = all_names[f]
        BY <1>4, <4>2 DEF NamesGrow
      <4>5. TopDirs(f) = IF io.to_top_dir THEN {<<all_names'[f]>>} ELSE {}
        BY <3>1, <4>4 DEF TopDirs
      <4>6. TopDirs(First)' = TopDirs(f)
        BY <3>4, <4>3, <4>5 DEF TopDirs
      <4>7. DirsOK'
        BY <1>1, <2>2, <3>3, <3>4, <3>6, <4>2, <4>3, <4>4, <4>6 DEF DirsOK
      <4>8. all_names'[n] = all_names'[f] => n = f
        <5>1. home'[n] = 1 /\ home'[f] = 1
          BY <1>1, <1>3, <3>4, <4>2, <4>4 DEF Struct, Levels
        <5>2. Shadowing'
          BY <1>3 DEF Struct, IInv
        <5>3. all_names'[n] = all_names'[f] => Folded(all_names'[n]) = Folded(all_names'[f])
          OBVIOUS
        <5> QED BY <3>4, <4>4, <5>1, <5>2, <5>3 DEF Shadowing
      <4>9. (file' # Closed) <=> (io.flat /\ ~ io.to_top_dir) \/ (io.to_top_dir /\ n = f)
        <5>1. CASE io.to_top_dir
          <6>1. dirs = {<< >>, <<all_names'[f]>>}
            BY <4>2, <4>5, <5>1
          <6>2. <<name>> # << >> /\ (<<name>> = <<all_names'[f]>> <=> name = all_names'[f])
            OBVIOUS
          <6>3. file' # Closed <=> <<name>> \in dirs
            BY <3>3, <3>6, <5>1
          <6>4. file' # Closed <=> name = all_names'[f]
            BY <6>1, <6>2, <6>3
          <6> QED BY <3>1, <4>8, <5>1, <6>4
        <5>2. CASE ~ io.to_top_dir
          <6>1. dirs = {<< >>}
            BY <4>2, <4>5, <5>2
          <6>2. <<name>> # << >>
            OBVIOUS
          <6> QED BY <3>3, <3>6, <5>2, <6>1, <6>2
        <5> QED BY <5>1, <5>2
      <4>10. Lands(Top.of, First)' <=> (io.flat /\ ~ io.to_top_dir) \/ (io.to_top_dir /\ n = f)
        BY <2>1, <2>5, <3>1, <3>4, <4>3 DEF Lands
      <4>11. FileOpen'
        BY <1>1, <2>1, <2>2, <2>5, <4>2, <4>9, <4>10 DEF FileOpen, Closed
      <4> QED BY <2>3, <4>7, <4>11 DEF FilesInv
    <3> QED BY <3>5, <3>6
  <2> QED BY <2>4, <2>5
<1> QED
  BY <1>6, <1>7

(* A line is added. *)
LEMMA LandAdds ==
  ASSUME WrittenOK, LinesLand, UNCHANGED design, NEW w, Adds(w), NEW l, l = Len(written) + 1,
         \A h \in 1 .. l : Under(l, h)' => (w.file # Closed <=> (h = 1 \/ Lands(written'[h].of, First')))
  PROVE  LinesLand'
<1>1. PICK x \in Nat : x = Len(written)
  BY OwnElements DEF WrittenOK
<1>2. l = x + 1
  BY <1>1
<1>3. /\ Len(written') = l /\ written'[l] = w /\ \A i \in 1 .. x : written'[i] = written[i]
  BY <1>1, <1>2 DEF Adds
<1>4. Closed' = Closed
  BY DEF Closed
<1>5. ASSUME NEW i \in 1 .. x, NEW h \in 1 .. l, Under(i, h)'
      PROVE  written'[i].file # Closed <=> (h = 1 \/ Lands(written[h].of, First)')
  <2>1. h \in 1 .. x /\ h <= i /\ written'[h].k = "module" /\ \A y \in h + 1 .. i : written'[y].k # "module"
    BY <1>1, <1>2, <1>5 DEF Under
  <2>2. Under(i, h)
    <3>1. \A y \in h + 1 .. i : y \in 1 .. x
      BY <1>1, <2>1
    <3> QED BY <1>1, <1>3, <2>1, <3>1 DEF Under
  <2>3. PICK n, f : n = written[h].of /\ f = First
    OBVIOUS
  <2>4. written[i].file # Closed <=> (h = 1 \/ Lands(n, f))
    BY <1>1, <2>1, <2>2, <2>3 DEF LinesLand
  <2>5. First' = f
    <3>1. 1 \in 1 .. x
      BY <1>1
    <3>2. written # << >> /\ written' # << >>
      <4>1. Len(<< >>) = 0
        OBVIOUS
      <4> QED BY <1>1, <1>2, <1>3, <3>1, <4>1
    <3> QED BY <1>3, <2>3, <3>1, <3>2 DEF First
  <2>6. Lands(written[h].of, First)' <=> Lands(n, f)
    <3>1. (written[h].of)' = n
      BY <1>3, <2>1, <2>3
    <3>2. Lands(written[h].of, First)' <=> Lands(n, f)'
      BY <2>5, <3>1 DEF Lands
    <3> QED BY <3>2, LandsStatic
  <2> QED BY <1>3, <2>4, <2>6
<1>6. ASSUME NEW h \in 1 .. l, Under(l, h)'
      PROVE  written'[l].file # Closed <=> (h = 1 \/ Lands(written[h].of, First)')
  <2>1. w.file # Closed <=> (h = 1 \/ Lands(written'[h].of, First'))
    BY <1>6
  <2>2. Lands(written[h].of, First)' <=> Lands(written'[h].of, First')
    <3>1. PICK n, f : n = written'[h].of /\ f = First'
      OBVIOUS
    <3>2. Lands(written[h].of, First)' <=> Lands(n, f)'
      BY <3>1 DEF Lands
    <3>3. Lands(n, f)' <=> Lands(n, f)
      BY LandsStatic
    <3>4. Lands(written'[h].of, First') <=> Lands(n, f)
      BY <3>1, Zenon
    <3> QED BY <3>2, <3>3, <3>4
  <2> QED BY <1>3, <2>1, <2>2
<1>7. \A i \in 1 .. l : i \in 1 .. x \/ i = l
  BY <1>1, <1>2
<1> QED
  BY <1>3, <1>4, <1>5, <1>6, <1>7 DEF LinesLand

(* The next line of a definition goes where the last one went.             *)
LEMMA LandNext ==
  ASSUME WrittenOK, LinesLand, UNCHANGED design, NEW w, Adds(w), w.k # "module",
         written # << >>, w.file = written[Len(written)].file
  PROVE  LinesLand'
<1>1. PICK x, l : x = Len(written) /\ l = x + 1
  OBVIOUS
<1>2. x \in Nat \ {0} /\ x \in 1 .. x
  BY <1>1, OwnElements DEF WrittenOK
<1>3. Len(written') = l /\ written'[l] = w /\ \A i \in 1 .. x : written'[i] = written[i]
  BY <1>1 DEF Adds
<1>4. ASSUME NEW h \in 1 .. l, Under(l, h)'
      PROVE  w.file # Closed <=> (h = 1 \/ Lands(written'[h].of, First'))
  <2>1. h \in 1 .. l /\ written'[h].k = "module" /\ \A y \in h + 1 .. l : written'[y].k # "module"
    BY <1>3, <1>4 DEF Under
  <2>2. h \in 1 .. x
    <3>1. h # l
      BY <1>3, <2>1
    <3> QED BY <1>1, <1>2, <2>1, <3>1
  <2>3. Under(x, h)
    <3>1. \A y \in h + 1 .. x : y \in 1 .. x /\ y \in h + 1 .. l
      BY <1>1, <1>2, <2>2
    <3>2. written[h].k = "module" /\ \A y \in h + 1 .. x : written[y].k # "module"
      BY <1>3, <2>1, <2>2, <3>1
    <3> QED BY <1>1, <1>2, <2>2, <3>2 DEF Under
  <2>4. PICK n, f : n = written[h].of /\ f = First
    OBVIOUS
  <2>5. w.file # Closed <=> (h = 1 \/ Lands(n, f))
    BY <1>1, <1>2, <2>2, <2>3, <2>4 DEF LinesLand
  <2>6. First' = f /\ written'[h].of = n
    <3>1. written' # << >>
      <4>1. Len(<< >>) = 0
        OBVIOUS
      <4> QED BY <1>1, <1>2, <1>3, <4>1
    <3>2. 1 \in 1 .. x
      BY <1>2
    <3> QED BY <1>3, <2>2, <2>4, <3>1, <3>2 DEF First
  <2> QED BY <2>5, <2>6, Zenon
<1>5. l = Len(written) + 1
  BY <1>1
<1> QED
  BY <1>4, <1>5, LandAdds

(* serialize_module_head writes to the file that name_module opened. *)
LEMMA FilesHead ==
  ASSUME Struct, FilesInv, serialize_module_head
  PROVE  FilesInv'
<1>1. PICK n, w, x : n = Top.of /\ w = Item("module", n, n, all_names[n], << >>) /\ x = Len(written)
  OBVIOUS
<1>2. /\ stack # << >> /\ Top.stage = "head" /\ UNCHANGED <<design, all_names>> /\ Adds(w)
      /\ n \in DOMAIN all_names /\ n \in DOMAIN design.netlists
      /\ stack' # << >> /\ Top'.of = n /\ Top'.stage = "body"
  BY <1>1, HeadStep
<1>3. WrittenOK /\ x \in Nat
  BY <1>1, OwnElements DEF Struct, WrittenOK
<1>4. w.k = "module" /\ w.of = n /\ w.file = file
  BY <1>1 DEF Item
<1>5. /\ Len(written') = x + 1 /\ written'[x + 1] = w /\ \A i \in 1 .. x : written'[i] = written[i]
      /\ written' # << >>
  <2>1. Len(<< >>) = 0
    OBVIOUS
  <2>2. Len(written') = x + 1
    BY <1>1, <1>2 DEF Adds
  <2> QED BY <1>1, <1>2, <1>3, <2>1, <2>2 DEF Adds
<1>6. UNCHANGED <<dirs, scope, top_clear, file>>
  BY DEF serialize_module_head, ioVars
<1>7. Inside /\ Inside' /\ InBody'
  BY <1>2 DEF Inside, InBody
<1>8. x = 0 <=> written = << >>
  BY <1>1, <1>3 DEF WrittenOK
<1>9. PICK f : f = First
  OBVIOUS
<1>10. First' = f
  <2>1. CASE x = 0
    BY <1>1, <1>4, <1>5, <1>8, <1>9, <2>1 DEF First
  <2>2. CASE x # 0
    <3>1. 1 \in 1 .. x
      BY <1>3, <2>2
    <3> QED BY <1>5, <1>8, <1>9, <2>2, <3>1 DEF First
  <2> QED BY <2>1, <2>2
<1>11. DirsOK'
  <2> SUFFICES ASSUME design.io.files PROVE DirsOK'
    BY <1>2 DEF DirsOK
  <2>1. /\ \E s : scope = <<s>>
        /\ top_clear /\ f \in DOMAIN all_names /\ f \in DOMAIN design.netlists
        /\ dirs = {<< >>} \cup TopDirs(f)
    BY <1>7, <1>9 DEF FilesInv, DirsOK
  <2>2. TopDirs(First)' = TopDirs(f)
    BY <1>2, <1>10 DEF TopDirs
  <2> QED BY <1>2, <1>5, <1>6, <1>7, <1>10, <2>1, <2>2 DEF DirsOK
<1>12. FileOpen'
  <2>1. ~ design.io.files => file = Stream
    BY DEF FilesInv, FileOpen
  <2>2. written'[Len(written')].file = file
    BY <1>4, <1>5
  <2> QED BY <1>2, <1>5, <1>6, <2>1, <2>2 DEF FileOpen, Stream
<1>13. LinesLand'
  <2>1. ASSUME NEW h \in 1 .. x + 1, Under(x + 1, h)'
        PROVE  w.file # Closed <=> (h = 1 \/ Lands(written'[h].of, First'))
    <3>1. h = x + 1
      <4>1. \A y \in h + 1 .. x + 1 : written'[y].k # "module"
        BY <2>1 DEF Under
      <4>2. x + 1 \notin h + 1 .. x + 1
        BY <1>4, <1>5, <4>1
      <4> QED BY <1>3, <4>2
    <3>2. h = 1 <=> written = << >>
      BY <1>3, <1>8, <3>1
    <3>3. file # Closed <=> (written = << >> \/ Lands(n, f))
      BY <1>1, <1>2, <1>9 DEF FilesInv, FileOpen
    <3>4. written'[h].of = n
      BY <1>4, <1>5, <3>1
    <3>5. w.file # Closed <=> (h = 1 \/ Lands(n, f))
      BY <1>4, <3>2, <3>3
    <3> QED BY <1>10, <3>4, <3>5, Zenon
  <2>2. PICK l : l = x + 1
    OBVIOUS
  <2>3. l = Len(written) + 1
    BY <1>1, <2>2
  <2>4. \A h \in 1 .. l : Under(l, h)' => (w.file # Closed <=> (h = 1 \/ Lands(written'[h].of, First')))
    BY <2>1, <2>2
  <2> QED BY <1>2, <1>3, <2>3, <2>4, LandAdds DEF FilesInv
<1> QED
  BY <1>11, <1>12, <1>13 DEF FilesInv

(* Nothing is done to files when a part of a body is written.              *)
LEMMA FilesPart ==
  ASSUME WrittenOK, FilesInv, InPart, UNCHANGED <<design, ioVars>>, NamesGrow, Goes,
         NEW w, Adds(w), w.k # "module", w.file = file
  PROVE  FilesInv'
<1>1. PICK n, x : n = Top.of /\ x = Len(written)
  OBVIOUS
<1>2. InBody /\ stack # << >> /\ Top.stage = "body" /\ stack' # << >> /\ Top'.of = n /\ Top'.stage = "body"
  BY <1>1 DEF InPart, InBody, Goes
<1>3. Inside /\ Inside' /\ InBody'
  BY <1>2 DEF Inside, InBody
<1>4. UNCHANGED <<dirs, scope, top_clear, file>>
  BY DEF ioVars
<1>5. written # << >> /\ written[x].file = file
  BY <1>1, <1>2 DEF FilesInv, FileOpen
<1>6. x \in Nat \ {0} /\ 1 \in 1 .. x
  BY <1>1, <1>5, OwnElements DEF WrittenOK
<1>7. /\ Len(written') = x + 1 /\ written'[x + 1] = w /\ written'[1] = written[1] /\ written' # << >>
  <2>1. Len(<< >>) = 0
    OBVIOUS
  <2>2. Len(written') = x + 1
    BY <1>1 DEF Adds
  <2> QED BY <1>1, <1>6, <2>1, <2>2 DEF Adds
<1>8. PICK f : f = First
  OBVIOUS
<1>9. First' = f
  BY <1>5, <1>7, <1>8 DEF First
<1>10. DirsOK'
  <2> SUFFICES ASSUME design.io.files PROVE DirsOK'
    BY DEF DirsOK
  <2>1. /\ \E s : scope = <<s>>
        /\ top_clear /\ f \in DOMAIN all_names /\ f \in DOMAIN design.netlists
        /\ dirs = {<< >>} \cup TopDirs(f)
    BY <1>3, <1>8 DEF FilesInv, DirsOK
  <2>2. f \in DOMAIN all_names' /\ all_names'[f] = all_names[f]
    BY <2>1 DEF NamesGrow
  <2>3. TopDirs(First)' = TopDirs(f)
    BY <1>9, <2>2 DEF TopDirs
  <2> QED BY <1>3, <1>4, <1>7, <1>9, <2>1, <2>2, <2>3 DEF DirsOK
<1>11. FileOpen'
  <2>1. ~ design.io.files => file = Stream
    BY DEF FilesInv, FileOpen
  <2>2. written'[Len(written')].file = file
    BY <1>7
  <2> QED BY <1>2, <1>4, <1>7, <2>1, <2>2 DEF FileOpen, Stream
<1>12. LinesLand'
  <2>1. w.file = written[Len(written)].file
    BY <1>1, <1>5
  <2> QED BY <1>5, <2>1, LandNext DEF FilesInv
<1> QED
  BY <1>10, <1>11, <1>12 DEF FilesInv

(* serialize_declaration writes to the file that is open. *)
LEMMA FilesDeclaration ==
  ASSUME Struct, FilesInv, serialize_declaration
  PROVE  FilesInv'
<1>1. PICK w, p : w = Item(p.k, Top.of, p.of.id, all_names'[p.of.id], << >>) /\ p = NextOne
  OBVIOUS
<1>2. /\ InPart /\ Named /\ UNCHANGED design /\ p.k \in {"port", "net"}
      /\ Fails \/ (Goes /\ Adds(w))
  BY <1>1, DeclarationStep
<1>3. NamesGrow /\ WrittenOK
  BY <1>2, GrowsFacts DEF Named, Struct
<1>4. UNCHANGED ioVars
  BY DEF serialize_declaration
<1>5. w.k # "module" /\ w.file = file
  BY <1>1, <1>2 DEF Item
<1> QED
  BY <1>2, <1>3, <1>4, <1>5, FilesStay, FilesPart DEF Fails

(* serialize_component_instance writes to the file that is open. *)
LEMMA FilesInstance ==
  ASSUME Struct, FilesInv, serialize_component_instance
  PROVE  FilesInv'
<1>1. PICK c : c = NextOne.of
  OBVIOUS
<1>2. /\ InPart /\ Named /\ UNCHANGED design
      /\ Fails \/ Crash \/ (Goes /\ \E text : Adds(Item("instance", c.of, c.id, all_names[c.of], text)))
  BY <1>1, InstanceStep
<1>3. NamesGrow /\ WrittenOK
  BY <1>2, GrowsFacts DEF Named, Struct
<1>4. UNCHANGED ioVars
  BY DEF serialize_component_instance
<1>5. CASE Fails \/ Crash
  BY <1>2, <1>3, <1>4, <1>5, FilesStay DEF Fails, Crash
<1>6. CASE Goes /\ \E text : Adds(Item("instance", c.of, c.id, all_names[c.of], text))
  <2>1. PICK text : Adds(Item("instance", c.of, c.id, all_names[c.of], text))
    BY <1>6
  <2>2. PICK w : w = Item("instance", c.of, c.id, all_names[c.of], text)
    OBVIOUS
  <2>3. Adds(w)
    BY <2>1, <2>2
  <2>4. w.k # "module" /\ w.file = file
    BY <2>2 DEF Item
  <2> QED BY <1>2, <1>3, <1>4, <1>6, <2>3, <2>4, FilesPart
<1> QED
  BY <1>2, <1>5, <1>6

(* serialize_endmodule writes to the file that is open and leaves the      *)
(* directory of the module.                                                *)
LEMMA FilesEnd ==
  ASSUME Struct, FilesInv, serialize_endmodule
  PROVE  FilesInv'
<1>1. PICK w, x : w = Item("endmodule", Top.of, Top.of, all_names[Top.of], << >>) /\ x = Len(written)
  OBVIOUS
<1>2. /\ UNCHANGED <<design, all_names>> /\ Adds(w) /\ stack # << >> /\ InBody /\ ~ InBody' /\ Popped
  BY <1>1, EndStep
<1>3. w.k # "module" /\ w.file = file
  BY <1>1 DEF Item
<1>4. WrittenOK /\ hierarchy_pop(design.io)
  BY DEF Struct, serialize_endmodule
<1>5. stack' # << >> => Top'.stage = "dependencies"
  <2> SUFFICES ASSUME stack' # << >> PROVE Top'.stage = "dependencies"
    OBVIOUS
  <2>1. PICK l \in Nat \ {0} : l = Len(stack)
    BY <1>2, TopFacts DEF Struct
  <2>2. l # 1 /\ Top' = stack[l - 1]
    BY <1>2, <2>1 DEF Popped
  <2>3. l - 1 \in 1 .. l - 1
    BY <2>1, <2>2
  <2>4. Waits(stack[l - 1], stack[l - 1 + 1])
    BY <2>1, <2>3 DEF Struct, StackOK
  <2> QED BY <2>2, <2>4 DEF Waits
<1>6. Inside /\ ~ Inside'
  BY <1>2, <1>5 DEF Inside, InBody
<1>7. written # << >> /\ written[x].file = file
  BY <1>1, <1>2 DEF FilesInv, FileOpen
<1>8. x \in Nat \ {0} /\ 1 \in 1 .. x
  BY <1>1, <1>4, <1>7, OwnElements DEF WrittenOK
<1>9. written'[1] = written[1] /\ written' # << >>
  <2>1. Len(<< >>) = 0
    OBVIOUS
  <2>2. Len(written') = x + 1
    BY <1>1, <1>2 DEF Adds
  <2> QED BY <1>1, <1>2, <1>8, <2>1, <2>2 DEF Adds
<1>10. PICK f : f = First
  OBVIOUS
<1>11. First' = f
  BY <1>7, <1>9, <1>10 DEF First
<1>12. DirsOK'
  <2> SUFFICES ASSUME design.io.files PROVE DirsOK'
    BY <1>2 DEF DirsOK
  <2>1. /\ \E s : scope = <<s>>
        /\ top_clear /\ f \in DOMAIN all_names /\ f \in DOMAIN design.netlists
        /\ dirs = {<< >>} \cup TopDirs(f)
    BY <1>6, <1>10 DEF FilesInv, DirsOK
  <2>2. scope' = Front(scope) /\ UNCHANGED <<dirs, top_clear>>
    BY <1>4 DEF hierarchy_pop
  <2>3. scope' = << >>
    BY <2>1, <2>2 DEF Front
  <2>4. TopDirs(First)' = TopDirs(f)
    BY <1>2, <1>11 DEF TopDirs
  <2> QED BY <1>2, <1>6, <1>9, <1>11, <2>1, <2>2, <2>3, <2>4 DEF DirsOK
<1>13. FileOpen'
  <2>1. ~ design.io.files => file' = Stream
    BY <1>4 DEF FilesInv, FileOpen, hierarchy_pop, ioVars
  <2> QED BY <1>2, <1>5, <2>1 DEF FileOpen, Stream
<1>14. LinesLand'
  <2>1. w.file = written[Len(written)].file
    BY <1>1, <1>3, <1>7
  <2> QED BY <1>2, <1>3, <1>4, <1>7, <2>1, LandNext DEF FilesInv
<1> QED
  BY <1>12, <1>13, <1>14 DEF FilesInv

(* Every step keeps FilesInv. *)
LEMMA FilesStep ==
  ASSUME Struct, FilesInv, VerilogNext
  PROVE  FilesInv'
BY FilesDependency, FilesNameModule, FilesHead, FilesDeclaration, FilesInstance, FilesEnd DEF VerilogNext
-----------------------------------------------------------------------------
(* What the invariant says of the files. *)

(* No netlist is a part of itself. *)
LEMMA NotOwnPart ==
  ASSUME design \in Designs, NEW n \in DOMAIN design.netlists
  PROVE  Makes(n, n) = {}
<1>1. PICK N : N = design.netlists
  OBVIOUS
<1>2. PICK height \in [DOMAIN N -> 0 .. Cardinality(DOMAIN N)] :
        \A m \in DOMAIN N : \A i \in DOMAIN N[m].comps : height[N[m].comps[i].of] < height[m]
  BY <1>1, DesignsAssumption
<1>3. ASSUME NEW k \in DOMAIN Netlist(n).comps, Netlist(n).comps[k].of = n PROVE FALSE
  <2>1. PICK h : h = height[n]
    OBVIOUS
  <2>2. h < h
    BY <1>1, <1>2, <1>3, <2>1 DEF Netlist
  <2>3. h \in 0 .. Cardinality(DOMAIN N)
    BY <1>1, <1>2, <2>1
  <2> QED BY <2>2, <2>3
<1> QED
  BY <1>3 DEF Makes

(* When all that is written are definitions of one netlist, it is one.     *)
LEMMA OneDefinition ==
  ASSUME Struct, Lines, Balance, Done,
         \A i, j \in Written("module") : written[i].of = written[j].of,
         NEW g \in Written("module"), NEW h \in Written("module")
  PROVE  g = h
<1>1. PICK n : n = written[g].of
  OBVIOUS
<1>2. \A i \in Written("module") : written[i].of = n
  BY <1>1
<1>3. n \in DOMAIN design.netlists /\ design \in Designs
  <2>1. g \in 1 .. Len(written) /\ written[g].k = "module"
    BY OwnElements DEF Written, WrittenOK, Struct
  <2> QED BY <1>1, <2>1 DEF Lines, LineNames, LineNamed, Struct, StackOK
<1>4. Makes(n, n) = {}
  BY <1>3, NotOwnPart
<1>5. Needed(n) = {}
  <2>1. \A i \in Written("module") : Makes(written[i].of, n) = {}
    BY <1>2, <1>4
  <2>2. \A p : p \in Needed(n) <=> \E i \in Written("module") : \E k \in Makes(written[i].of, n) : p = <<i, k>>
    BY NeededFacts
  <2> QED BY <2>1, <2>2
<1>6. PICK D : D = Definitions(n)
  OBVIOUS
<1>7. IsFiniteSet(D) /\ Cardinality(D) <= 1
  <2>1. Cardinality(D) = Cardinality(Needed(n)) + IF n = design.top THEN 1 ELSE 0
    BY <1>3, <1>6, CountsDone
  <2>2. Cardinality(Needed(n)) = 0
    BY <1>5, FS_EmptySet
  <2>3. IsFiniteSet(D)
    BY <1>3, <1>6 DEF Balance
  <2> QED BY <2>1, <2>2, <2>3
<1>8. g \in D /\ h \in D
  BY <1>2, <1>6 DEF Definitions
<1>9. SUFFICES ASSUME g # h PROVE FALSE
  OBVIOUS
<1>10. PICK a, b : a = {g} /\ b = {h}
  OBVIOUS
<1>11. IsFiniteSet(a) /\ IsFiniteSet(b) /\ Cardinality(a) = 1 /\ Cardinality(b) = 1 /\ a \cap b = {}
  BY <1>9, <1>10, FS_Singleton
<1>12. Cardinality(a \cup b) = 1 + 1
  BY <1>11, DisjointUnion
<1>13. a \cup b \in SUBSET D
  BY <1>8, <1>10
<1>14. Cardinality(a \cup b) <= Cardinality(D)
  BY <1>7, <1>13, FS_Subset
<1>15. Cardinality(D) \in Nat
  BY <1>7, FS_CardinalityType
<1> QED
  BY <1>7, <1>12, <1>14, <1>15

(* At the end: what Lands says of every definition, and that a design with *)
(* one module has one definition.                                          *)
LEMMA AllLand ==
  ASSUME Struct, TextInv, Balance, FilesInv
  PROVE  FilesComplete
<1> SUFFICES ASSUME Done PROVE (\A i \in DOMAIN written : written[i].file # Closed) <=>
       \/ ~ design.io.files
       \/ \A i, j \in Written("module") : written[i].of = written[j].of
       \/ design.io.flat /\ ~ design.io.to_top_dir
  BY DEF FilesComplete
<1>1. Lines /\ WrittenOK /\ LinesLand
  BY DEF TextInv, FilesInv, Struct
<1>2. DOMAIN written = 1 .. Len(written) /\ Len(written) \in Nat
  BY <1>1, OwnElements DEF WrittenOK
<1>3. \A i \in 1 .. Len(written) : \E h \in 1 .. Len(written) : Under(i, h)
  <2> SUFFICES ASSUME NEW i \in 1 .. Len(written) PROVE \E h \in 1 .. Len(written) : Under(i, h)
    OBVIOUS
  <2>1. PICK h \in 1 .. Len(written) : InBlock(i, h)
    BY <1>1 DEF Lines, Blocks
  <2> QED BY <1>1, <2>1, BlockRange DEF Under
<1>4. \A h : h \in Written("module") <=> h \in 1 .. Len(written) /\ Under(h, h)
  BY <1>2 DEF Written, Under
<1>5. ASSUME NEW i \in 1 .. Len(written), NEW h, Under(i, h)
      PROVE  h \in Written("module") /\ (written[i].file # Closed <=> (h = 1 \/ Lands(written[h].of, First)))
  <2>1. h \in 1 .. Len(written) /\ written[h].k = "module"
    BY <1>5 DEF Under
  <2> QED BY <1>1, <1>2, <1>5, <2>1 DEF LinesLand, Written
<1>6. written # << >> => 1 \in Written("module") /\ First = written[1].of
  <2> SUFFICES ASSUME written # << >> PROVE 1 \in Written("module") /\ First = written[1].of
    OBVIOUS
  <2>1. 1 \in 1 .. Len(written)
    BY <1>1, <1>2 DEF WrittenOK
  <2>2. PICK h \in 1 .. Len(written) : Under(1, h)
    BY <1>3, <2>1
  <2>3. h = 1
    BY <1>2, <2>2 DEF Under
  <2> QED BY <1>5, <2>1, <2>2, <2>3 DEF First
<1>7. (\A i \in 1 .. Len(written) : written[i].file # Closed) <=>
        \A h \in Written("module") : h = 1 \/ Lands(written[h].of, First)
  BY <1>3, <1>4, <1>5
<1>8. CASE ~ design.io.files \/ (design.io.flat /\ ~ design.io.to_top_dir)
  <2>1. \A h \in Written("module") : Lands(written[h].of, First)
    BY <1>8 DEF Lands
  <2> QED BY <1>2, <1>7, <1>8, <2>1
<1>9. CASE ~ (~ design.io.files \/ (design.io.flat /\ ~ design.io.to_top_dir))
  <2>1. \A n, f : Lands(n, f) <=> design.io.to_top_dir /\ n = f
    BY <1>9 DEF Lands
  <2>2. ASSUME \A h \in Written("module") : h = 1 \/ Lands(written[h].of, First)
        PROVE  \A i, j \in Written("module") : written[i].of = written[j].of
    <3>1. ASSUME NEW h \in Written("module") PROVE written[h].of = written[1].of
      <4>1. written # << >>
        BY <3>1 DEF Written
      <4> QED BY <1>6, <2>1, <2>2, <3>1, <4>1
    <3> QED BY <3>1
  <2>3. ASSUME \A i, j \in Written("module") : written[i].of = written[j].of, NEW h \in Written("module")
        PROVE  h = 1 \/ Lands(written[h].of, First)
    <3>1. written # << >>
      BY <2>3 DEF Written
    <3>2. 1 \in Written("module") /\ First = written[1].of
      BY <1>6, <3>1
    <3>3. h = 1
      BY <1>1, <2>3, <3>2, OneDefinition
    <3> QED BY <3>3
  <2> QED BY <1>2, <1>7, <1>9, <2>2, <2>3
<1> QED
  BY <1>8, <1>9
-----------------------------------------------------------------------------
(* The invariant, of every run of the serializer over every design.        *)
THEOREM VerilogInvariant == VerilogSpec => []VerilogInv
<1>1. VerilogInit => VerilogInv
  BY StructInit, ClashInit, TextInit, BalanceInit, FilesInit DEF VerilogInv
<1>2. VerilogInv /\ [VerilogNext]_<<nameVars, ioVars, textVars>> => VerilogInv'
  <2> SUFFICES ASSUME VerilogInv, [VerilogNext]_<<nameVars, ioVars, textVars>>
               PROVE  VerilogInv'
    OBVIOUS
  <2>0. Struct /\ ClashInv /\ TextInv /\ PartsInv /\ Balance /\ FilesInv
    BY DEF VerilogInv
  <2>1. CASE VerilogNext
    BY <2>0, <2>1, StructStep, ClashStep, TextStep, FilesStep DEF VerilogInv
  <2>2. CASE UNCHANGED <<nameVars, ioVars, textVars>>
    BY <2>0, <2>2, StructStutter, ClashStutter, TextStutter, PartsStutter, BalanceStutter, FilesStutter
       DEF VerilogInv
  <2> QED BY <2>1, <2>2
<1> QED
  BY <1>1, <1>2, PTL DEF VerilogSpec

(* A module with components of different netlists of one name is never     *)
(* written to its end: one of these netlists is named with the number 0 in *)
(* the global level, the level of the body counts from 0 again, and        *)
(* checkedName throws NameOccupiedErr for the instance.                    *)
THEOREM NeverWritten == VerilogSpec => []SameNameNeverWritten
<1>1. VerilogInv => SameNameNeverWritten
  BY NoClashDone DEF VerilogInv
<1> QED
  BY <1>1, VerilogInvariant, PTL

(* At every moment each instance is behind the end of a definition of its  *)
(* module, under the same name and with the ports it names; modules of one *)
(* name are of one netlist; the ports and nets of a definition differ in   *)
(* name.  And when the serializer is done, each netlist was defined once   *)
(* for every component of it in a definition, the top netlist once more.   *)
THEOREM InOrder == VerilogSpec => []ModulesInOrder
<1>1. VerilogInv => ModulesInOrder
  <2> SUFFICES ASSUME VerilogInv PROVE ModulesInOrder
    OBVIOUS
  <2>1. Struct /\ Lines /\ PartsInv /\ Balance
    BY DEF VerilogInv, TextInv
  <2>2. \A i \in Written("instance") :
          \E j \in Written("endmodule") :
            /\ j < i /\ written[j].of = written[i].of /\ written[j].name = written[i].name
            /\ \A p \in DOMAIN written[i].conn :
                 \E l \in HeadOf(j) .. j : written[l].k = "port" /\ written[l].id = p
                                           /\ written[l].name = written[i].conn[p].port
    BY <2>1, InstancesDefined
  <2>3. \A i, j \in Written("module") :
          written[i].name = written[j].name => written[i].of = written[j].of
    BY <2>1, ModuleNames
  <2>4. \A i, j \in Written("port") \cup Written("net") :
          i < j /\ HeadOf(i) = HeadOf(j) => written[i].name # written[j].name
    BY <2>1, DeclarationsDiffer
  <2>5. Done => \A n \in DOMAIN design.netlists :
                  Cardinality(Definitions(n)) = Cardinality(Needed(n)) + IF n = design.top THEN 1 ELSE 0
    BY <2>1, CountsDone
  <2> QED BY <2>2, <2>3, <2>4, <2>5 DEF ModulesInOrder
<1> QED
  BY <1>1, VerilogInvariant, PTL

(* When the serializer is done, every line is in a file if and only if the *)
(* output is a stream, there is one module, or the files are directly in   *)
(* the root: in the other cases the directory is that of the module which  *)
(* was written first, and the text of every other module is lost.          *)
THEOREM Complete == VerilogSpec => []FilesComplete
<1>1. VerilogInv => FilesComplete
  BY AllLand DEF VerilogInv
<1> QED
  BY <1>1, VerilogInvariant, PTL
=============================================================================
