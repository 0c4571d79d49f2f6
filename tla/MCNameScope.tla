----------------------------- MODULE MCNameScope -----------------------------
(* An instance of NameScope: four objects that ask for a plain name in two *)
(* spellings, for a keyword, for the prefix of the generated names, and    *)
(* for a name that looks like a generated one.                             *)
EXTENDS NameScope

MCStems == {"a", "A", "reg"}

MCLower == [s \in MCStems |-> IF s = "A" THEN "a" ELSE s]

MCKeywords == {<<"reg", << >>, FALSE>>}

MCSuggestions ==
  {<<"a", << >>, FALSE>>, <<"A", << >>, FALSE>>, <<"reg", << >>, FALSE>>,
   <<"a", << >>, TRUE>>, <<"a", <<0>>, FALSE>>}

(* The objects are interchangeable: the scope only compares them. *)
MCSymmetry == Permutations(Objects)
=============================================================================
