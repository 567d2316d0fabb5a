-------------------------------- MODULE Names --------------------------------
(***************************************************************************)
(* The names of pdb.xml and the ones genbeans and genddl make of them      *)
(* (readxml/xml.go).  A name is a sequence of words and underscores; a     *)
(* word has at least two letters, all of them small but perhaps the first, *)
(* and only a capital separates it from a word before it.  Go identifiers  *)
(* of two conventions, act_id and actId, are two names here that some of   *)
(* the conversions do not tell apart.                                      *)
(***************************************************************************)
EXTENDS Naturals, Sequences, SequencesExt

Small(w) == [word |-> w, cap |-> FALSE]
Capital(w) == [word |-> w, cap |-> TRUE]
Underscore == Small("_")

Upper(t) == IF t = Underscore THEN t ELSE [t EXCEPT !.cap = TRUE]
Lower(t) == [t EXCEPT !.cap = FALSE]

IsWord(t) == t # Underscore

\* Parts are split at underscores, and every part gets a capital.
PascalPiece(n, i) ==
    IF ~IsWord(n[i]) THEN <<>>
    ELSE IF i = 1 \/ ~IsWord(n[i - 1]) THEN <<Upper(n[i])>>
    ELSE <<n[i]>>
PascalCase(n) == FlattenSeq([i \in DOMAIN n |-> PascalPiece(n, i)])

\* An underscore goes before every capital but the first letter.
SnakePiece(n, i) ==
    IF i > 1 /\ n[i].cap THEN <<Underscore, Lower(n[i])>> ELSE <<Lower(n[i])>>
SnakeCase(n) == FlattenSeq([i \in DOMAIN n |-> SnakePiece(n, i)])

LowerCamelCase(n) ==
    LET p == PascalCase(n)
    IN  IF p = <<>> THEN p ELSE <<Lower(Head(p))>> \o Tail(p)

Words == STRING \cup {Underscore.word}
Tokens == {t \in [word : Words, cap : BOOLEAN] : t.cap => IsWord(Lower(t))}
IsName(n) == n \in Seq(Tokens)
IsIdentifier(n) == n # <<>>
IsExported(n) == n # <<>> /\ n[1].cap
StartsSmall(n) == n # <<>> /\ IsWord(n[1]) /\ ~n[1].cap
=============================================================================
