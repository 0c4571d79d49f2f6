------------------------------ MODULE NameScope ------------------------------
(***************************************************************************)
(* serializer::NameScope and ::NameScopeItem (src/serializer/              *)
(* namescope.cpp): the names the Verilog serializer gives to the modules,  *)
(* nets, processes and instances it writes.                                *)
(*                                                                         *)
(* Level 1 holds the keywords and the modules; a level is pushed for the   *)
(* body of a module and popped behind it.  A name that is taken already,   *)
(* in the level or around it, is extended by "_" and a number that the     *)
(* level counts per prefix.                                                *)
(*                                                                         *)
(* A name is a stem, the numbers appended to it, and whether it ends in    *)
(* "_": "tmp" is <<"tmp", << >>, FALSE>>, "tmp_" is <<"tmp", << >>, TRUE>> *)
(* and "tmp_0" is <<"tmp", <<0>>, FALSE>>.                                 *)
(***************************************************************************)
EXTENDS Integers, FiniteSetsExt, UniqueSeq, TLC, Sequences

CONSTANTS Objects,      \* what is named; and
          KeyWord,      \* what a keyword is registered for
          NoObject,     \* stands for "no object"
          Stems,
          Lower,        \* tolower, a function on Stems
          Keywords,     \* the reserved names, in lower case
          Suggestions,  \* the names that objects ask for
          MaxLevel      \* bound: levels

Name == Stems \X Seq(Nat) \X BOOLEAN

ASSUME ObjectsAssumption == KeyWord \notin Objects /\ NoObject \notin Objects \cup {KeyWord}
ASSUME LowerAssumption == Lower \in [Stems -> Stems] /\ \A s \in Stems : Lower[Lower[s]] = Lower[s]
ASSUME NamesAssumption == Suggestions \subseteq Name /\ Keywords \subseteq Name
(* No reserved name ends in "_" and a number. *)
ASSUME KeywordsAssumption == \A k \in Keywords : k[2] = << >>
ASSUME BoundAssumption == MaxLevel \in Nat \ {0}

VARIABLES items,        \* level -> lower case name -> object
          cntrs,        \* level -> prefix -> cntrsForPrefixNames
          all_names,    \* object -> the name it was given
          occupied,     \* NameOccupiedErr: the object it is thrown for, and its name
          home,         \* history: object -> its level, 0 if that is popped
          asked,        \* history: object -> the name it asked for
          order         \* history: the named objects, in this order

vars == <<items, cntrs, all_names, occupied, home, asked, order>>

NoError == <<NoObject>>

Init ==
  /\ items = <<[k \in Keywords |-> KeyWord]>>
  /\ cntrs = << << >> >>
  /\ all_names = << >>
  /\ occupied = NoError
  /\ home = [o \in Objects |-> 0]
  /\ asked = << >>
  /\ order = << >>

-----------------------------------------------------------------------------
(* The map f with the entry k -> v, the one it had for k replaced. *)
WithEntry(k, v, f) == [x \in {k} \cup DOMAIN f |-> IF x = k THEN v ELSE f[x]]

Folded(n) == <<Lower[n[1]], n[2], n[3]>>

EndsOpen(n) == n[3]

WithUnderscore(n) == <<n[1], n[2], TRUE>>

WithNumber(n, i) == <<n[1], Append(n[2], i), FALSE>>

level_push ==
  /\ occupied = NoError
  /\ Len(items) < MaxLevel
  /\ items' = Append(items, << >>)
  /\ cntrs' = Append(cntrs, << >>)
  /\ UNCHANGED <<all_names, occupied, home, asked, order>>

(* The serializer keeps the level of the keywords. *)
level_pop ==
  /\ occupied = NoError
  /\ Len(items) > 1
  /\ items' = SubSeq(items, 1, Len(items) - 1)
  /\ cntrs' = SubSeq(cntrs, 1, Len(items) - 1)
  /\ home' = [o \in Objects |-> IF home[o] = Len(items) THEN 0 ELSE home[o]]
  /\ UNCHANGED <<all_names, occupied, asked, order>>

(* The next level, 0 for none.  A level compares its own number, from 0,   *)
(* plus one with the number of levels.                                     *)
get_child(l) == IF Len(items) >= (l - 1) + 1 THEN 0 ELSE l + 1

(* The levels whose counter follows that of level l. *)
Followers(l, prefix) ==
  {m \in l + 1 .. Len(items) :
     \A k \in l .. m - 1 : get_child(k) = k + 1 /\ prefix \in DOMAIN cntrs[k + 1]}

(* Mutant: only the level itself is searched. *)
holders_here(l, n) == {k \in {l} : n \in DOMAIN items[k]}

holders(l, n) == {k \in 1 .. l : n \in DOMAIN items[k]}

(* __registerName does not throw: the name is free, in the level and all   *)
(* around it, or obj has it already in the nearest level that knows it.    *)
CanRegister(l, n, obj) ==
  LET ls == holders(l, Folded(n)) IN ls # {} => items[Max(ls)][Folded(n)] = obj

__registerName(l, n, obj) == items' = [items EXCEPT ![l] = WithEntry(Folded(n), obj, @)]

Counter(l, prefix) == IF prefix \in DOMAIN cntrs[l] THEN cntrs[l][prefix] ELSE -1

(* Mutant: the increased counter is not stored. *)
__incrPrefixCntrsForChilds_lost(l, prefix, cntrVal) == UNCHANGED cntrs

__incrPrefixCntrsForChilds(l, prefix, cntrVal) ==
  cntrs' = [m \in DOMAIN cntrs |->
              IF m \in {l} \cup Followers(l, prefix)
              THEN WithEntry(prefix, cntrVal + 1, cntrs[m]) ELSE cntrs[m]]

Give(l, n, obj) ==
  /\ __registerName(l, n, obj)
  /\ all_names' = WithEntry(obj, n, all_names)
  /\ home' = [home EXCEPT ![obj] = l]
  /\ order' = Append(order, obj)
  /\ UNCHANGED occupied

(* get_usable_name: the suggestion as it is. *)
get_suggested_name(l, n, obj) ==
  /\ ~ EndsOpen(n) /\ CanRegister(l, n, obj)
  /\ Give(l, n, obj)
  /\ UNCHANGED cntrs

(* Or with the next number of its prefix, which may be occupied as well:   *)
(* then the exception leaves checkedName and nothing has a name.           *)
get_numbered_name(l, n, obj) ==
  /\ EndsOpen(n) \/ ~ CanRegister(l, n, obj)
  /\ LET prefix == WithUnderscore(n)
         usable == WithNumber(n, Counter(l, prefix) + 1)
     IN  /\ __incrPrefixCntrsForChilds(l, prefix, Counter(l, prefix))
         /\ IF CanRegister(l, usable, obj)
            THEN Give(l, usable, obj)
            ELSE /\ occupied' = <<obj, l, usable>>
                 /\ UNCHANGED <<items, all_names, home, order>>

(* checkedName of an object without a name; all_names answers for others.  *)
checkedName(n, obj, isGlobal) ==
  /\ occupied = NoError
  /\ obj \notin DOMAIN all_names
  /\ asked' = WithEntry(obj, n, asked)
  /\ LET l == IF isGlobal THEN 1 ELSE Len(items)
     IN  get_suggested_name(l, n, obj) \/ get_numbered_name(l, n, obj)

Next ==
  \/ level_push
  \/ level_pop
  \/ \E n \in Suggestions, obj \in Objects, isGlobal \in BOOLEAN : checkedName(n, obj, isGlobal)

Spec == Init /\ [][Next]_vars
-----------------------------------------------------------------------------
(* As long as its level is there an object keeps its name, no matter what  *)
(* case it is written in, for itself - except that a global name may later *)
(* be given to something that a level inside of it has a name like that    *)
(* for already.                                                            *)
NamesDistinct ==
  \A a \in DOMAIN all_names : home[a] # 0 =>
    /\ items[home[a]][Folded(all_names[a])] = a
    /\ \A b \in DOMAIN all_names \ {a} :
         home[b] >= home[a] /\ Folded(all_names[a]) = Folded(all_names[b]) =>
           home[b] > home[a] /\ Before(order, b, a)

(* NameOccupiedErr leaves checkedName only when the number is taken in an  *)
(* enclosing level, whose counter is another one, or by an object that     *)
(* asked for just that name, or through a prefix in another case: a level  *)
(* never counts the same number twice.                                     *)
OccupiedExplained ==
  occupied # NoError =>
    LET l == occupied[2]
        n == occupied[3]
        at == Max(holders(l, Folded(n)))
        holder == items[at][Folded(n)]
    IN  at < l \/ asked[holder] = all_names[holder] \/ all_names[holder] # n
=============================================================================
