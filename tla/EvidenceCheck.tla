--------------------------- MODULE EvidenceCheck ----------------------------
(***************************************************************************)
(* How verify judges the evidence file of a scenario that has no commands  *)
(* (scripts/workshop.py): which lines a section and a block have, and what *)
(* they must say.  A line is a record: the level of its heading (0: none), *)
(* the heading or field it starts with, the words it counts, the length of *)
(* its field's value, whether the value mentions one of the options, and   *)
(* whether a placeholder of the template is left in it.                    *)
(***************************************************************************)
EXTENDS Integers, Sequences, FiniteSetsExt

CONSTANTS Lines,      \* the lines a document may have
          Headings,   \* required_headings
          BlockStart, \* the heading_prefix of the blocks
          BlockLevel, \* and its level
          MinBlocks,  \* min_count
          Field,      \* the field every block must have
          DocumentFields, \* the fields the document must have somewhere
          MinChars,   \* min_chars of the fields
          MinWords,   \* min_words_per_section
          MaxLines    \* bound: the length of a document

\* _parse_fields() and _parse_evidence() refuse other figures than these; that blocks
\* begin with a heading is the manifests' doing.
FieldsParse == MinChars \in 1..2000
EvidenceParses ==
  /\ Headings # {} /\ FieldsParse
  /\ MinBlocks \in 1..20 /\ MinWords \in 1..500

\* A line that begins with the prefix of a block is a heading of its level.
ASSUME EvidenceAssumption ==
  /\ EvidenceParses /\ BlockLevel \in 1..6
  /\ \A l \in Lines : l.level \in Nat /\ l.words \in Nat /\ l.chars \in Nat
  /\ \A l \in Lines : l.starts = BlockStart => l.level = BlockLevel

VARIABLE document

evidenceVars == <<document>>

EvidenceInit == document = <<>>

\* The participant writes on.
WriteLine(l) ==
  /\ Len(document) < MaxLines
  /\ document' = Append(document, l)

EvidenceNext == \E l \in Lines : WriteLine(l)

-----------------------------------------------------------------------------
\* For mutation: only a heading of a higher level ends a body.
EndsAbove(d, k, level) == d[k].level # 0 /\ d[k].level < level

\* A heading of the same or a higher level ends a body.
EndsBody(d, k, level) == d[k].level # 0 /\ d[k].level =< level

\* The lines after line i up to the next heading that ends them
BodyLines(d, i, level) ==
  {k \in (i + 1)..Len(d) : \A j \in (i + 1)..k : ~EndsBody(d, j, level)}

\* _section_body(): the first line that is the heading counts.
SectionLines(d, h) ==
  LET i == Min({k \in DOMAIN d : d[k].starts = h})
  IN  BodyLines(d, i, d[i].level)

\* _judge_document_placeholders()
NoPlaceholder(d) == \A k \in DOMAIN d : ~d[k].template

\* The words of some lines of the document
Words(d, body) == SumFunctionOnSet([k \in DOMAIN d |-> d[k].words], body)

\* _judge_body()
BodyPasses(d, body) ==
  /\ \A k \in body : ~d[k].template
  /\ Words(d, body) >= MinWords

\* _judge_field(): of several lines with the label the longest one counts, and the
\* first of these.
Longest(d, found) ==
  Min({k \in found : \A j \in found : d[j].chars =< d[k].chars})

FieldPasses(d, body, label) ==
  LET found == {k \in body : d[k].starts = label}
  IN  /\ found # {}
      /\ LET best == d[Longest(d, found)]
         IN  ~best.template /\ best.chars >= MinChars /\ best.mentions

\* _judge_blocks()
Blocks(d) == {k \in DOMAIN d : d[k].starts = BlockStart}

BlocksPass(d) ==
  /\ Cardinality(Blocks(d)) >= MinBlocks
  /\ \A b \in Blocks(d) :
       LET body == BodyLines(d, b, BlockLevel)
       IN  BodyPasses(d, body) /\ FieldPasses(d, body, Field)

\* run_evidence_check() reports no failure.
EvidencePasses(d) ==
  /\ NoPlaceholder(d)
  /\ \A h \in Headings : /\ \E k \in DOMAIN d : d[k].starts = h
                         /\ BodyPasses(d, SectionLines(d, h))
  /\ \A label \in DocumentFields : FieldPasses(d, DOMAIN d, label)
  /\ BlocksPass(d)

-----------------------------------------------------------------------------
\* Properties

\* What passes was written for each block on its own: no line is evidence for two
\* blocks, so there are as many distinct field lines that meet their conditions, and
\* as many times the words of a section, as there are blocks.
EvidenceIsDistinct ==
  EvidencePasses(document) =>
    LET fields == {k \in DOMAIN document : /\ document[k].starts = Field
                                           /\ document[k].chars >= MinChars
                                           /\ document[k].mentions}
    IN  /\ Cardinality(Blocks(document)) >= MinBlocks
        /\ Cardinality(fields) >= Cardinality(Blocks(document))
        /\ \A b, c \in Blocks(document) :
             b < c => \E k \in fields : b < k /\ k < c
        /\ Words(document, DOMAIN document) >= MinWords * Cardinality(Blocks(document))

=============================================================================
