------------------------------- MODULE Passages -------------------------------
(***************************************************************************)
(* How a file becomes passages (services/ingestion): its format's          *)
(* extractor makes sections of it, each section is normalized and, where   *)
(* it is long, split at its coarsest separator, the short parts merged     *)
(* again up to the chunk size with an overlap.                             *)
(* A text is a sequence of symbols; a letter is a positive number that     *)
(* occurs once in a file, so that a passage tells where it is from.        *)
(***************************************************************************)
EXTENDS Integers, FiniteSets, SequencesExt

CONSTANTS
  Files,      \* the files considered, a set of records of File
  Sizings,    \* settings: [size, overlap, maxText, maxPassages]
  NoTitle, Unprocessed

Space   == 0
Newline == -1
Period  == -2
Control == -3
White == {Space, Newline}

Symbols == Nat \cup {Space, Newline, Period, Control}

\* A block is a line of a text or Markdown file, a paragraph of a Word document
\* or a page of a PDF; readable is what extract_text of a page may not be.
Block == [symbols : Seq(Symbols), heading : BOOLEAN, readable : BOOLEAN]

File == [format : {"txt", "md", "docx", "pdf", "other"}, blocks : Seq(Block) \ {<<>>}]

\* Letters are numbered in the order of the file.
Numbered(f) ==
  \A i, j \in DOMAIN f.blocks :
    \A m \in DOMAIN f.blocks[i].symbols, n \in DOMAIN f.blocks[j].symbols :
      LET a == f.blocks[i].symbols[m]
          b == f.blocks[j].symbols[n]
      IN a > 0 /\ b > 0 /\ (i < j \/ (i = j /\ m < n)) => a < b

\* A line of Markdown is a heading only with a text; the settings of a chunker are
\* refused otherwise.
ASSUME PassagesAssumption ==
  /\ \A f \in Files :
       /\ f \in File /\ Numbered(f)
       /\ f.format = "md" =>
            \A n \in DOMAIN f.blocks :
              f.blocks[n].heading => \E i \in DOMAIN f.blocks[n].symbols : f.blocks[n].symbols[i] \notin White
  /\ \A z \in Sizings : z.size \in Nat /\ z.overlap \in 0 .. z.size - 1

VARIABLES file, sizing, passages
passageVars == <<file, sizing, passages>>

-----------------------------------------------------------------------------
(* TextNormalizer. *)

\* A set of positions in order, and what is there in t.
InOrder(positions) ==
  [n \in 1 .. Cardinality(positions) |->
     CHOOSE i \in positions : Cardinality({j \in positions : j <= i}) = n]

At(t, positions) == LET order == InOrder(positions) IN [n \in DOMAIN order |-> t[order[n]]]

Blank(t) == \A i \in DOMAIN t : t[i] \in White

\* strip, a contiguous part of the text.
Stripped(t) ==
  LET solid == {i \in DOMAIN t : t[i] \notin White}
  IN At(t, {i \in DOMAIN t : \E a, b \in solid : a <= i /\ i <= b})

\* The white space before i since the last symbol that is none.
WhiteBefore(t, i) == {j \in 1 .. i - 1 : \A k \in j .. i - 1 : t[k] \in White}

\* Of a run of white space one space stays, unless its line ends there, and two
\* line breaks.
Normalized(raw) ==
  LET t == At(raw, {i \in DOMAIN raw : raw[i] # Control})
      kept(i) ==
        /\ t[i] = Space => i < Len(t) /\ t[i + 1] \notin White
        /\ t[i] = Newline => Cardinality({j \in WhiteBefore(t, i) : t[j] = Newline}) < 2
  IN Stripped(At(t, {i \in DOMAIN t : kept(i)}))

-----------------------------------------------------------------------------
(* RecursiveTextChunker, of chunk size and overlap z. *)

\* Where the separator starts, the parts of the text between, and every symbol
\* alone where it is empty.
Starts(t, separator) ==
  {i \in 1 .. Len(t) - Len(separator) + 1 : SubSeq(t, i, i + Len(separator) - 1) = separator}

Parts(t, separator) ==
  IF separator = <<>> THEN [i \in DOMAIN t |-> <<t[i]>>]
  ELSE LET cuts == InOrder(Starts(t, separator))
           from(n) == IF n = 1 THEN 1 ELSE cuts[n - 1] + Len(separator)
           upto(n) == IF n > Len(cuts) THEN Len(t) ELSE cuts[n] - 1
       IN [n \in 1 .. Len(cuts) + 1 |-> SubSeq(t, from(n), upto(n))]

Joined(parts, separator) ==
  FlattenSeq([n \in DOMAIN parts |-> IF n = 1 THEN parts[n] ELSE separator \o parts[n]])

Appended(texts, t) == IF Blank(t) THEN texts ELSE Append(texts, Stripped(t))

\* Mutant: what is kept is only held against the overlap.
KeptWithinOverlap(parts, separator, more, z) ==
  LET fits(k) == Len(Joined(SubSeq(parts, k, Len(parts)), separator)) <= z.overlap
      k == CHOOSE k \in 1 .. Len(parts) + 1 :
             fits(k) /\ \A j \in 1 .. k - 1 : ~fits(j)
  IN SubSeq(parts, k, Len(parts))

\* The last parts of a finished passage that begin the next one: as many as the
\* overlap allows and leave room for the part to come.
Kept(parts, separator, more, z) ==
  LET length(k) == Len(Joined(SubSeq(parts, k, Len(parts)), separator))
      fits(k) == length(k) = 0 \/ (length(k) <= z.overlap /\ length(k) + more <= z.size)
      k == CHOOSE k \in 1 .. Len(parts) + 1 :
             fits(k) /\ \A j \in 1 .. k - 1 : ~fits(j)
  IN SubSeq(parts, k, Len(parts))

\* _merge_splits: m has the passages finished and the parts of the current one.
Added(m, part, separator, z) ==
  LET more == Len(part) + (IF m.current = <<>> THEN 0 ELSE Len(separator))
      full == Len(Joined(m.current, separator)) + more > z.size /\ m.current # <<>>
  IN [texts   |-> IF full THEN Appended(m.texts, Joined(m.current, separator)) ELSE m.texts,
      current |-> Append(IF full THEN Kept(m.current, separator, more, z) ELSE m.current, part)]

MergeSplits(parts, separator, z) ==
  LET merged[n \in 0 .. Len(parts)] ==
        IF n = 0 THEN [texts |-> <<>>, current |-> <<>>]
        ELSE Added(merged[n - 1], parts[n], separator, z)
      last == merged[Len(parts)]
  IN Appended(last.texts, Joined(last.current, separator))

\* The parts of t that are not empty.
Splits(t, separator) ==
  LET parts == Parts(t, separator) IN At(parts, {n \in DOMAIN parts : parts[n] # <<>>})

\* _split_text, of the texts that hold no coarser separator: what is still as long
\* as a passage is split at a finer one, what lies between is merged.
SplitAt(separator, finer, z) ==
  [t \in Seq(Symbols) |->
     IF Starts(t, separator) = {} THEN finer[t]
     ELSE LET splits == Splits(t, separator)
              long(n) == Len(splits[n]) >= z.size
              upto(n) == CHOOSE m \in n .. Len(splits) :
                           /\ m = Len(splits) \/ long(m + 1)
                           /\ \A k \in n .. m : ~long(k)
          IN FlattenSeq([n \in DOMAIN splits |->
               IF long(n) THEN finer[splits[n]]
               ELSE IF n > 1 /\ ~long(n - 1) THEN <<>>
               ELSE MergeSplits(SubSeq(splits, n, upto(n)), separator, z)])]

\* The separators of the code, the coarsest last; "! ", "? " and "; " do as ". " does.
SplitText(text, z) ==
  LET first      == [t \in Seq(Symbols) |-> <<SubSeq(t, 1, Min({z.size, Len(t)}))>>]
      symbols    == SplitAt(<<>>, first, z)
      words      == SplitAt(<<Space>>, symbols, z)
      sentences  == SplitAt(<<Period, Space>>, words, z)
      lines      == SplitAt(<<Newline>>, sentences, z)
      paragraphs == SplitAt(<<Newline, Newline>>, lines, z)
  IN paragraphs[text]

\* What is blank is left out, the rest stripped.
Cleaned(texts) ==
  LET solid == At(texts, {n \in DOMAIN texts : ~Blank(texts[n])})
  IN [n \in DOMAIN solid |-> Stripped(solid[n])]

\* chunk, of one section.
PassagesOf(section, z) ==
  LET t == Normalized(section.text)
      texts == IF t = <<>> THEN <<>>
               ELSE IF Len(t) <= z.size THEN <<t>>
               ELSE Cleaned(SplitText(t, z))
  IN [n \in DOMAIN texts |-> [text |-> texts[n], title |-> section.title, page |-> section.page]]

-----------------------------------------------------------------------------
(* The extractors: the sections of a file. *)

Section(blocks, between, title, page) ==
  [text |-> Joined([n \in DOMAIN blocks |-> blocks[n].symbols], between),
   title |-> title, page |-> page]

\* A heading opens a section that bears its title and begins with it.
Headed(blocks, between) ==
  LET opens == InOrder({n \in DOMAIN blocks : n = 1 \/ blocks[n].heading})
      upto(k) == IF k = Len(opens) THEN Len(blocks) ELSE opens[k + 1] - 1
      first(k) == blocks[opens[k]]
  IN [k \in DOMAIN opens |->
        Section(SubSeq(blocks, opens[k], upto(k)), between,
                IF first(k).heading THEN first(k).symbols ELSE NoTitle, 0)]

Pages(blocks) == [n \in DOMAIN blocks |-> Section(<<blocks[n]>>, <<>>, NoTitle, n)]

Sections(f) ==
  CASE f.format = "txt"  -> <<Section(f.blocks, <<Newline>>, NoTitle, 0)>>
    [] f.format = "md"   -> Headed(f.blocks, <<Newline>>)
    [] f.format = "docx" -> Headed(At(f.blocks, {n \in DOMAIN f.blocks : ~Blank(f.blocks[n].symbols)}),
                                   <<Newline, Newline>>)
    [] f.format = "pdf"  -> At(Pages(f.blocks), {n \in DOMAIN f.blocks : f.blocks[n].readable})

\* A page that cannot be read is skipped like an empty one, as are the empty
\* paragraphs of a Word document.
Extracted(f) ==
  LET sections == Sections(f) IN At(sections, {n \in DOMAIN sections : ~Blank(sections[n].text)})

-----------------------------------------------------------------------------
(* IngestionService.process_document, from the file to the passages. *)

Length(sections) == FoldLeft(LAMBDA n, s : n + Len(s.text), 0, sections)

Chunked(sections, z) == FlattenSeq([n \in DOMAIN sections |-> PassagesOf(sections[n], z)])

Ended(code, made) == [code |-> code, made |-> made]

Limited(made, z) ==
  IF made = <<>> THEN Ended("CHUNKING_FAILED", <<>>)
  ELSE IF Len(made) > z.maxPassages THEN Ended("RESOURCE_LIMIT_EXCEEDED", <<>>)
  ELSE Ended("none", made)

Processed(f, z) ==
  IF f.format = "other" THEN Ended("UNSUPPORTED_FILE_TYPE", <<>>)
  ELSE IF Extracted(f) = <<>> THEN Ended("EMPTY_DOCUMENT", <<>>)
  ELSE IF Length(Extracted(f)) > z.maxText THEN Ended("RESOURCE_LIMIT_EXCEEDED", <<>>)
  ELSE Limited(Chunked(Extracted(f), z), z)

PassagesInit(files, sizings) ==
  /\ file \in files
  /\ sizing \in sizings
  /\ passages = Unprocessed

ProcessDocument ==
  /\ passages = Unprocessed
  /\ passages' = Processed(file, sizing)
  /\ UNCHANGED <<file, sizing>>

-----------------------------------------------------------------------------
(* Properties. *)

Letters(t) == {t[i] : i \in {i \in DOMAIN t : t[i] > 0}}

\* The title a letter of block b should be found under: of the last heading up to it
\* that has a text.
TitleOf(f, b) ==
  LET headings == {h \in 1 .. b : f.blocks[h].heading /\ ~Blank(f.blocks[h].symbols)}
  IN IF f.format \notin {"md", "docx"} \/ headings = {} THEN NoTitle
     ELSE f.blocks[CHOOSE h \in headings : \A k \in headings : k <= h].symbols

\* The passages of a file are no longer than the chunk size, hold every letter of
\* what could be read under its title and page, each an unbroken stretch of its
\* section, the next one begun within the overlap and, but for periods, ended
\* beyond the one before: whatever separators the text has and wherever the sizes fall.
PassagesCoverFile ==
  (passages # Unprocessed /\ passages.code = "none") =>
    LET made == passages.made IN
    /\ \A n \in DOMAIN made :
         /\ Len(made[n].text) \in 1 .. sizing.size
         /\ \A a, b \in Letters(made[n].text), i \in DOMAIN file.blocks :
              Letters(file.blocks[i].symbols) \cap (a .. b) \subseteq Letters(made[n].text)
    /\ \A i \in DOMAIN file.blocks : \A c \in Letters(file.blocks[i].symbols) :
         \/ file.format = "pdf" /\ ~file.blocks[i].readable
         \/ \E n \in DOMAIN made :
              /\ c \in Letters(made[n].text)
              /\ made[n].title = TitleOf(file, i)
              /\ file.format = "pdf" => made[n].page = i
    /\ \A n \in 2 .. Len(made) :
         LET before == Letters(made[n - 1].text)
             after == Letters(made[n].text)
         IN /\ Cardinality(before \cap after) <= sizing.overlap
            /\ \/ Period \in ToSet(made[n].text)
               \/ \E c \in after : \A b \in before : b < c
=============================================================================
