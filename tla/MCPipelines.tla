----------------------------- MODULE MCPipelines -----------------------------
EXTENDS Pipelines

Run(known, reads, writes) == [known |-> known, reads |-> reads, writes |-> writes]

Echo == Run(TRUE, FALSE, 1)
Long == Run(TRUE, FALSE, 2)      \* more than a pipe holds
Cat == Run(TRUE, TRUE, 1)
Wc == Run(TRUE, TRUE, 0)
Typo == Run(FALSE, FALSE, 0)

\* All lines of one and two programs; of three, those with a first program that
\* does not read and a last one that may.
Programs == {Echo, Long, Cat, Wc, Typo}
MCLines ==
  {<<a>> : a \in Programs}
  \cup (Programs \X Programs)
  \cup ({Echo, Long, Typo} \X {Cat, Long, Typo} \X {Wc, Cat, Long})
=============================================================================
