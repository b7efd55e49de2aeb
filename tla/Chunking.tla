------------------------------ MODULE Chunking ------------------------------
(***************************************************************************)
(* How a document's text is cut into chunks: ChunkingService.chunk        *)
(* (application/chunking/chunking.service.ts) chooses a strategy by the    *)
(* estimated number of tokens; strategies/no-split.strategy.ts keeps the   *)
(* text whole, llm-smart.strategy.ts lets the LLM cut it and falls back on *)
(* pieces of a fixed size, hierarchical.strategy.ts cuts it into sections  *)
(* first and treats each by its own size.                                  *)
(*                                                                         *)
(* A text is its length and the positions that the code looks at; pieces   *)
(* of it are intervals <<from, to>>, `to' excluded.  The fixed-size loop   *)
(* is the same code in two strategies and appears once.                    *)
(*                                                                         *)
(* A definition named Faulty... is its neighbour with a bug in it; nothing *)
(* uses it but the checks that a property would notice the bug.            *)
(***************************************************************************)
EXTENDS Integers, Sequences

CONSTANTS
  Texts,          \* the texts that may be chunked
  CharsPerToken,  \* 4, the estimate of estimateTokens
  SmallTokens,    \* 1000, SMALL_DOC_THRESHOLD
  MediumTokens,   \* 10000, MEDIUM_DOC_THRESHOLD
  Size,           \* 2048, charsPerChunk
  Overlap,        \* 256, overlapChars
  Back,           \* 200, how far before the end a sentence is looked for
  Ahead           \* 100, and how far after it

\* blank: white space; stops: full stops, exclamation and question marks;
\* breaks: line ends with another line end beside them; heads: where a
\* markdown header begins.
IsText(t) ==
  /\ t.len \in Nat
  /\ t.blank \subseteq 0 .. t.len - 1
  /\ t.stops \subseteq (0 .. t.len - 1) \ t.blank
  /\ t.breaks \subseteq t.blank
  /\ t.heads \subseteq (0 .. t.len - 1) \ t.blank

\* The three last hold of the numbers above: 256 < 2048, 200 + 256 <= 2048,
\* and 2048 + 100 characters are fewer than 1000 tokens.
ASSUME ChunkingAssumption ==
  /\ \A t \in Texts : IsText(t)
  /\ {CharsPerToken, Size, Overlap, Back, Ahead} \subseteq Nat
  /\ CharsPerToken > 0 /\ Size > 0
  /\ SmallTokens \in Nat /\ MediumTokens \in Nat /\ SmallTokens <= MediumTokens
  /\ Overlap < Size
  /\ Back + Overlap <= Size
  /\ Size + Ahead <= (SmallTokens - 1) * CharsPerToken

VARIABLES
  text,    \* the text
  pc,      \* where the strategy is
  todo,    \* sections that hierarchical has not come to yet
  piece,   \* the text or section in hand
  start,   \* the fixed-size loop's position
  chunks,  \* the chunks so far; a chunk's chunkIndex is its place here
  answered \* history: the pieces that the LLM has answered for

chunkVars == <<text, pc, todo, piece, start, chunks, answered>>

-----------------------------------------------------------------------------
(* Sizes.                                                                  *)

Tokens(n) == (n + CharsPerToken - 1) \div CharsPerToken

Length(s) == s[2] - s[1]

\* canHandle() of the three strategies; hierarchical applies the same
\* thresholds to its sections.
FaultyNoSplit(n) == Tokens(n) <= SmallTokens
NoSplit(n) == Tokens(n) < SmallTokens
FaultyLlmSmart(n) == SmallTokens < Tokens(n) /\ Tokens(n) < MediumTokens
LlmSmart(n) == SmallTokens <= Tokens(n) /\ Tokens(n) < MediumTokens
Hierarchical(n) == Tokens(n) >= MediumTokens

-----------------------------------------------------------------------------
(* splitByStructure().                                                     *)

Solid(a, b) == (a .. b - 1) \ text.blank

\* What trim() leaves of the interval from a to b, if anything.
Trim(a, b) ==
  {s \in Solid(a, b) \X {p + 1 : p \in Solid(a, b)} :
     \A p \in Solid(a, b) : s[1] <= p /\ p < s[2]}

Trims(spans) == UNION {Trim(s[1], s[2]) : s \in spans}

\* A header's section reaches to the next header or to the end.
HeadSpans ==
  {s \in text.heads \X (text.heads \cup {text.len}) :
     s[1] < s[2] /\ \A h \in text.heads : h <= s[1] \/ s[2] <= h}

\* The text before the first header.
FaultyIntroSpans == {}
IntroSpans == {s \in {0} \X text.heads : \A h \in text.heads : s[2] <= h}

\* A paragraph lies between empty lines.
ParagraphSpans ==
  {s \in ({0} \cup {p + 1 : p \in text.breaks}) \X (text.breaks \cup {text.len}) :
     s[1] < s[2] /\ (s[1] .. s[2] - 1) \cap text.breaks = {}}

Many(S) == \E r, s \in S : r # s

Sections ==
  IF Many(text.heads) THEN Trims(HeadSpans \cup IntroSpans)
  ELSE IF Many(Trims(ParagraphSpans)) THEN Trims(ParagraphSpans)
  ELSE {<<0, text.len>>}

-----------------------------------------------------------------------------
ChunkInit ==
  /\ text \in Texts
  /\ pc = "choose"
  /\ todo = {}
  /\ piece = <<0, text.len>>
  /\ start = 0
  /\ chunks = <<>>
  /\ answered = {}

Chunk(a, b, how) == [from |-> a, to |-> b, by |-> how]

Keep(s, how) == chunks' = Append(chunks, Chunk(s[1], s[2], how))

\* The first strategy that can handle the number of tokens.
Choose ==
  /\ pc = "choose"
  /\ \/ /\ NoSplit(text.len)
        /\ Keep(piece, "whole")
        /\ pc' = "done"
        /\ UNCHANGED todo
     \/ /\ LlmSmart(text.len)
        /\ pc' = "llm"
        /\ UNCHANGED <<todo, chunks>>
     \/ /\ Hierarchical(text.len)
        /\ todo' = Sections
        /\ pc' = "next"
        /\ UNCHANGED chunks
  /\ UNCHANGED <<text, piece, start, answered>>

FaultyIsNext(s) == TRUE
IsNext(s) == \A o \in todo : s[1] <= o[1]

\* hierarchical's loop over the sections, in the order of the text.
NextSection ==
  /\ pc = "next"
  /\ \E s \in todo :
       /\ IsNext(s)
       /\ piece' = s
       /\ todo' = todo \ {s}
       /\ \/ /\ NoSplit(Length(s))
             /\ Keep(s, "whole")
             /\ UNCHANGED <<pc, start>>
          \/ /\ LlmSmart(Length(s))
             /\ pc' = "llm"
             /\ UNCHANGED <<start, chunks>>
          \/ /\ Hierarchical(Length(s))
             /\ pc' = "fixed"
             /\ start' = s[1]
             /\ UNCHANGED chunks
  /\ UNCHANGED <<text, answered>>

\* smartChunk() answers with chunks of its own, which are kept as one element
\* in the piece's place, or with none: parsed.chunks may be empty, or missing.
\* Either is taken as it is.
LlmAnswers ==
  /\ pc = "llm"
  /\ Keep(piece, "llm") \/ UNCHANGED chunks
  /\ answered' = answered \cup {piece}
  /\ pc' = "next"
  /\ UNCHANGED <<text, todo, piece, start>>

\* It throws: no answer, or one that is not JSON.
LlmFails ==
  /\ pc = "llm"
  /\ pc' = "fixed"
  /\ start' = piece[1]
  /\ UNCHANGED <<text, todo, piece, chunks, answered>>

\* Where the window begins and ends in which a sentence may end.
FaultyWindow(end) ==
  {p \in text.stops :
     start <= p /\ p + 1 < end + Ahead /\ p + 1 < piece[2] /\ p + 1 \in text.blank}
Window(end) ==
  {p \in text.stops :
     /\ start <= p /\ end - Back <= p
     /\ p + 1 < end + Ahead /\ p + 1 < piece[2]
     /\ p + 1 \in text.blank}

\* A chunk from start ends after the first sentence that ends in the window.
EndsAt(e) ==
  LET end == IF start + Size < piece[2] THEN start + Size ELSE piece[2] IN
  IF end = piece[2] \/ Window(end) = {}
    THEN e = end
    ELSE e - 1 \in Window(end) /\ \A p \in Window(end) : e - 1 <= p

Following(e) == e - Overlap

LoopEnds(s) == s >= piece[2] - Overlap

\* One round of the loop in fixedSizeChunk() and fallbackFixedSizeChunk().
FixedChunk ==
  /\ pc = "fixed"
  /\ \E e \in start .. start + Size + Ahead :
       /\ EndsAt(e)
       /\ Keep(<<start, e>>, "fixed")
       /\ start' = Following(e)
  /\ pc' = IF LoopEnds(start') THEN "next" ELSE "fixed"
  /\ UNCHANGED <<text, todo, piece, answered>>

Finish ==
  /\ pc = "next"
  /\ todo = {}
  /\ pc' = "done"
  /\ UNCHANGED <<text, todo, piece, start, chunks, answered>>

Rest == pc = "done" /\ UNCHANGED chunkVars

ChunkNext ==
  \/ Choose \/ NextSection \/ LlmAnswers \/ LlmFails \/ FixedChunk \/ Finish
  \/ Rest

ChunkSpec == ChunkInit /\ [][ChunkNext]_chunkVars

\* The code runs on; the LLM's client answers or throws after its timeout.
ChunkFairSpec == ChunkSpec /\ WF_chunkVars(ChunkNext)

-----------------------------------------------------------------------------
(* Properties.                                                             *)

ChunkTypeOK ==
  /\ IsText(text)
  /\ pc \in {"choose", "next", "llm", "fixed", "done"}
  /\ todo \subseteq Int \X Int
  /\ piece \in Int \X Int
  /\ start \in Int
  /\ chunks \in Seq([from : Int, to : Int, by : {"whole", "llm", "fixed"}])
  /\ answered \subseteq Int \X Int

In(p, s) == s[1] <= p /\ p < s[2]

\* In a chunk that the code has cut, or in a piece that the LLM answered for:
\* what its chunks say, if it gave any, is its own.
Covered(p) ==
  \/ \E i \in 1 .. Len(chunks) :
       chunks[i].by # "llm" /\ chunks[i].from <= p /\ p < chunks[i].to
  \/ \E s \in answered : In(p, s)

\* The code itself loses no character but white space: between two chunks,
\* before the first header, between paragraphs, behind the last chunk of a
\* section or where the LLM failed.  What is not in a chunk that the code cut is
\* in a piece that the LLM answered for, and without such a piece there is a
\* chunk, even of an empty text.  Of its pieces the LLM may drop anything, and
\* all of it: nobody looks.
NothingLost ==
  pc = "done" =>
    /\ chunks # <<>> \/ answered # {}
    /\ \A p \in Solid(0, text.len) : Covered(p)

\* Every chunk is a piece of the text and has at least one character (before
\* it is trimmed), even when a sentence ends early in the window or the text
\* ends in the overlap; and what the code cuts itself, whole sections and
\* fixed-size pieces that run on to the end of a sentence alike, stays below
\* the small threshold, which is far below what the embeddings service takes.
ChunksFit ==
  \A i \in 1 .. Len(chunks) :
    LET c == chunks[i] IN
    /\ 0 <= c.from /\ c.to <= text.len
    /\ c.from < c.to \/ text.len = 0
    /\ c.by # "llm" => Tokens(c.to - c.from) < SmallTokens

\* The chunkIndex follows the text, and no chunk lies in another: a later one
\* begins later and ends later, over the sections, the LLM's failures and the
\* loop that steps back by the overlap.
InOrder ==
  \A i, j \in 1 .. Len(chunks) :
    i < j => chunks[i].from < chunks[j].from /\ chunks[i].to < chunks[j].to

\* The loop that steps back by the overlap moves forward all the same.
LoopAdvances == [][pc = "fixed" /\ pc' = "fixed" => start < start']_chunkVars

\* Chunking ends, whatever the length of the text: the thresholds, rounded up
\* to tokens, leave none that no strategy handles.
Ends == <>(pc = "done")

-----------------------------------------------------------------------------
(* The inductive form of the invariants.                                   *)

\* A piece of the text that is not empty.
Within(s) == 0 <= s[1] /\ s[1] < s[2] /\ s[2] <= text.len

\* What is in hand at each place of the strategy.
PlaceOK ==
  /\ pc = "choose" => piece = <<0, text.len>> /\ chunks = <<>>
  /\ pc \in {"choose", "done"} => todo = {}
  /\ pc \in {"next", "done"} => todo # {} \/ chunks # <<>> \/ answered # {}
  /\ pc \in {"llm", "fixed"} => Within(piece)
  /\ pc = "fixed" => In(start, piece)

\* What the rest of the run will cover.
ToCome(p) ==
  \/ \E s \in todo : In(p, s)
  \/ pc \in {"choose", "llm"} /\ In(p, piece)
  \/ pc = "fixed" /\ In(p, <<start, piece[2]>>)

CoverOK == \A p \in Solid(0, text.len) : ToCome(p) \/ Covered(p)

\* Sections, the piece in hand and the chunks do not overlap, but for the loop
\* with its own chunks.
Apart(S) == \A s, o \in S : s = o \/ s[2] <= o[1] \/ o[2] <= s[1]

OrderOK ==
  /\ Apart(todo)
  /\ pc \in {"llm", "fixed"} => \A s \in todo : piece[2] <= s[1]
  /\ \A i \in 1 .. Len(chunks) :
       /\ \A s \in todo : chunks[i].to <= s[1]
       /\ pc = "llm" => chunks[i].to <= piece[1]
       /\ pc = "fixed" =>
            /\ chunks[i].from < start
            /\ chunks[i].to <= start + Overlap /\ chunks[i].to < piece[2]

ChunkIInv ==
  /\ ChunkTypeOK
  /\ \A s \in todo : Within(s)
  /\ PlaceOK
  /\ ChunksFit
  /\ CoverOK
  /\ OrderOK
  /\ InOrder

-----------------------------------------------------------------------------
(* Why chunking ends: something is left to do until it is done, and every  *)
(* step leaves less to do.                                                 *)

CanStep ==
  \/ pc = "choose" /\ (NoSplit(text.len) \/ LlmSmart(text.len) \/ Hierarchical(text.len))
  \/ /\ pc = "next"
     /\ todo = {} \/ \E s \in todo :
          IsNext(s) /\ (NoSplit(Length(s)) \/ LlmSmart(Length(s)) \/ Hierarchical(Length(s)))
  \/ pc = "llm"
  \/ pc = "fixed" /\ \E e \in start .. start + Size + Ahead : EndsAt(e)

\* Before it is done, chunking can go on: a strategy handles each length, the
\* sections that are left have a first one, and a chunk of the fixed-size loop
\* has an end.
NeverStuck == pc # "done" => CanStep

Rank == [choose |-> 4, llm |-> 3, fixed |-> 2, next |-> 1, done |-> 0]

\* A step takes up one of finitely many sections, or moves on to a later place
\* with the same sections left, or moves the loop's position forward.
Descends ==
  \/ pc = "choose" /\ pc' # "choose"
  \/ pc' # "choose" /\ todo' \subseteq todo /\ todo' # todo
  \/ todo' = todo /\ Rank[pc'] < Rank[pc]
  \/ todo' = todo /\ pc = "fixed" /\ pc' = "fixed" /\ piece' = piece /\ start < start' /\ start' < piece[2]
=============================================================================
