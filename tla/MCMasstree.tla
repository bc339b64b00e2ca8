---- MODULE MCMasstree ----
EXTENDS Masstree

OneTwo == <<1, 2>>
FourOneTwo == <<4, 1, 2>>

ins(k) == <<"insert", k>>
rem(k) == <<"remove", k>>

\* A split and the deletion of the new leaf beside another writer, slots
\* that are freed and used again, and a second split.
Mixed ==
  {(11 :> <<ins(3), rem(3)>>) @@ (12 :> <<ins(4)>>),
   (11 :> <<ins(3), rem(2)>>) @@ (12 :> <<ins(2)>>),
   (11 :> <<rem(2), ins(3), rem(3), ins(2)>>) @@ (12 :> <<>>),
   (11 :> <<ins(3), ins(4), rem(4), rem(3)>>) @@ (12 :> <<>>)}

Reinsert == {(11 :> <<ins(3), rem(3)>>) @@ (12 :> <<ins(3)>>)}

EmptyFirst == {(11 :> <<ins(3), rem(1), rem(2)>>)}

Append3 == {(11 :> <<ins(3)>>)}
====
