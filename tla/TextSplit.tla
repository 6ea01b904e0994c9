------------------------------- MODULE TextSplit -------------------------------
(***************************************************************************)
(* chunking.rs: how ingest and split-body cut a body that is too large for *)
(* one memory into parts, at Markdown headers where it can and anywhere    *)
(* between two characters where it must.                                   *)
(*   A body is a sequence of characters: its bytes, its tokens and whether *)
(* a header line begins with it.  The tokenizer and the Markdown splitter  *)
(* behind the chunk count are external; their counts are one weight here.  *)
(***************************************************************************)
EXTENDS Integers, Sequences, SequencesExt, Totals

CONSTANTS
  Bodies,          \* bodies: sequences of [bytes, tokens, head]
  MaxBytes,       \* AUTOSPLIT_PARTITION_MAX_BYTES
  MaxTokens       \* EMBEDDING_REQUEST_MAX_TOKENS, and the chunks of a memory

ASSUME SplitConstants ==
  /\ MaxBytes \in Nat \ {0} /\ MaxTokens \in Nat
  /\ \A t \in Bodies :
       /\ t \in Seq(Range(t))
       /\ \A i \in DOMAIN t : t[i].bytes \in 1..MaxBytes /\ t[i].tokens \in Nat /\ t[i].head \in BOOLEAN

VARIABLES text, pieces
textVars == <<text, pieces>>

Bytes(s)  == Total([i \in 1..Len(s) |-> s[i].bytes])
Tokens(s) == Total([i \in 1..Len(s) |-> s[i].tokens])
Fits(s)   == Bytes(s) <= MaxBytes /\ Tokens(s) <= MaxTokens

\* The last part with more text at its end.
Lengthen(parts, more) == [parts EXCEPT ![Len(parts)] = @ \o more]

\* split_markdown_sections: a header line begins a section.
Sections(s) ==
  LET p[i \in 0..Len(s)] ==
        IF i = 0 THEN << >>
        ELSE IF i = 1 \/ s[i].head THEN Append(p[i - 1], <<s[i]>>)
             ELSE Lengthen(p[i - 1], <<s[i]>>)
  IN  p[Len(s)]

\* Mutant: the section that does not fit is forgotten.
PackedDropping(sections) ==
  LET p[k \in 0..Len(sections)] ==
        IF k = 0 THEN << >>
        ELSE IF k > 1 /\ Bytes(p[k - 1][Len(p[k - 1])]) + Bytes(sections[k]) <= MaxBytes
             THEN Lengthen(p[k - 1], sections[k])
             ELSE IF Bytes(sections[k]) > MaxBytes THEN Append(p[k - 1], << >>) ELSE Append(p[k - 1], sections[k])
  IN  p[Len(sections)]
\* Sections are added to the last part while its bytes stay below the limit.
Packed(sections) ==
  LET p[k \in 0..Len(sections)] ==
        IF k = 0 THEN << >>
        ELSE IF k > 1 /\ Bytes(p[k - 1][Len(p[k - 1])]) + Bytes(sections[k]) <= MaxBytes
             THEN Lengthen(p[k - 1], sections[k])
             ELSE Append(p[k - 1], sections[k])
  IN  p[Len(sections)]

\* hard_slice_to_budget: as many characters as fit, at least one, then the next slice.
HardSlice(s) == Packed([i \in 1..Len(s) |-> <<s[i]>>])

\* split_body_by_sections
Split(s) ==
  IF Fits(s) THEN <<s>>
  ELSE LET packed == Packed(Sections(s))
       IN  FlattenSeq([k \in 1..Len(packed) |-> IF Fits(packed[k]) THEN <<packed[k]>> ELSE HardSlice(packed[k])])

TextInit == text \in Bodies /\ pieces = << >>
TextNext == pieces = << >> /\ pieces' = Split(text) /\ UNCHANGED text
TextSpec == TextInit /\ [][TextNext]_textVars

----------------------------------------------------------------------------
\* chunking.rs says so of split_body_by_sections, and split-body and ingest store the
\* parts instead of the body: put together again they are the body, none of them empty
\* unless the body is.
Lossless ==
  pieces # << >> => FlattenSeq(pieces) = text /\ (text # << >> => \A k \in DOMAIN pieces : pieces[k] # << >>)

\* A part fits a memory: its bytes always, its tokens if no character of the body has more
\* tokens per byte than the limits allow for (constants/limits.rs reckons with CJK).
PiecesFit ==
  \A k \in DOMAIN pieces :
    /\ Bytes(pieces[k]) <= MaxBytes
    /\ (\A i \in DOMAIN text : text[i].tokens * MaxBytes <= text[i].bytes * MaxTokens) => Tokens(pieces[k]) <= MaxTokens

\* The cuts are as few as packing in order allows: no two neighbouring parts that both
\* come from whole sections would have fit into one.
NoNeedlessCut ==
  (\A k \in DOMAIN Sections(text) : Fits(Sections(text)[k])) =>
    \A k \in 2..Len(pieces) : pieces[k][1].head /\ Bytes(pieces[k - 1]) + Bytes(Sections(pieces[k])[1]) > MaxBytes
\* split_body_by_sections of any text loses nothing, keeps the limits and cuts no more
\* than it has to.
SplitSound == Lossless /\ PiecesFit /\ NoNeedlessCut
==============================================================================
