--------------------------------- MODULE Lists ---------------------------------
(***************************************************************************)
(* List comprehensions and loops that build a list, which the searches and *)
(* the providers are made of: SelectSeq and FlattenSeq, for sets instead   *)
(* of predicates and as recursive functions, so that theorems can be       *)
(* proved about them (SequenceFacts).                                      *)
(***************************************************************************)
EXTENDS Integers, Sequences

\* [x for x in list if x in keep]
Sift(list, keep) ==
  LET sifted[i \in 0..Len(list)] ==
        IF i = 0 THEN <<>>
        ELSE IF list[i] \in keep THEN Append(sifted[i - 1], list[i]) ELSE sifted[i - 1]
  IN sifted[Len(list)]

\* [x for list in lists for x in list]
Joined(lists) ==
  LET joined[i \in 0..Len(lists)] == IF i = 0 THEN <<>> ELSE joined[i - 1] \o lists[i]
  IN joined[Len(lists)]

================================================================================
