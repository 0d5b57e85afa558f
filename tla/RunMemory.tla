----------------------------- MODULE RunMemory -----------------------------
(***************************************************************************)
(* What a run is told of the runs before it: the digest of                 *)
(* orchestrator/run_memory.py, the instruction start_research composes     *)
(* from it, and the note ops/notion_summary.py leaves for the next digest. *)
(*                                                                         *)
(* A text is a sequence of symbols.  Blank is any white space, and each of *)
(* the code's fixed texts is one symbol, so that no text has a part of the *)
(* delimiter.  A text that may be absent is then empty.                    *)
(***************************************************************************)
EXTENDS Integers, SequencesExt

CONSTANTS
  Symbol,          \* what texts are made of
  Loads,           \* json.loads, on the texts that are run summaries
  InstructionMax,  \* INSTRUCTION_MAX_CHARS
  DigestMax,       \* DIGEST_MAX_CHARS
  DigestRows,      \* DIGEST_ROWS
  DirectiveMax,    \* _DIRECTIVE_CHARS
  ColumnMax,       \* _MAX_TEXT of a Notion column
  ChunkMax,        \* _BLOCK_CHAR_LIMIT
  ChunksMax        \* _CODE_RICH_TEXT_LIMIT

Blank        == "blank"
Delimiter    == "MEMORY_DELIMITER"
Ellipsis     == "..."
Constraints  == "Constraints:"
NoPriorRuns  == "NO_PRIOR_RUNS"
NoIncumbent  == "NO_INCUMBENT"
HeaderText   == "HEADER"
OmittedNote  == "OMITTED_NOTE"
OpenEnded    == "(open-ended)"
NoRunSummary == "(no run summary available)"

ASSUME RunMemoryAssumption ==
  /\ {Blank, Delimiter, Ellipsis, NoPriorRuns} \subseteq Symbol
  /\ {InstructionMax, DigestMax, DigestRows} \subseteq Nat
  /\ {DirectiveMax, ColumnMax, ChunkMax, ChunksMax} \subseteq Nat \ {0}

Solid(text) == {i \in DOMAIN text : text[i] # Blank}

\* str.rstrip and str.strip
RightStripped(text) == IF Solid(text) = {} THEN <<>> ELSE SubSeq(text, 1, Max(Solid(text)))
Stripped(text) ==
  IF Solid(text) = {} THEN <<>> ELSE SubSeq(text, Min(Solid(text)), Max(Solid(text)))

Clip(text, limit) ==
  IF Len(text) <= limit THEN text ELSE SubSeq(text, 1, limit - 1) \o <<Ellipsis>>

\* _normalize: one blank for every stretch of them, none at the ends.
Normalized(text) ==
  LET bare == Stripped(text)
      kept == {i \in DOMAIN bare : bare[i] = Blank => bare[i + 1] # Blank}
      at == SetToSortSeq(kept, <)
  IN [k \in DOMAIN at |-> bare[at[k]]]

-----------------------------------------------------------------------------
(* The instruction of a run, and what its durable records keep of it *)

DirectiveInstruction(objective, constraints) ==
  IF constraints = <<>> THEN objective
  ELSE objective \o <<Blank, Constraints, Blank>> \o constraints

\* The digest is trimmed, and dropped when nothing of it is left; the
\* directive never is.
Compose(directive, digest) ==
  LET first == Stripped(directive)
      memory == Stripped(digest)
      budget == InstructionMax - Len(first) - 1
      room == IF budget < 0 THEN 0 ELSE budget
      fitting == IF Len(memory) > budget THEN RightStripped(SubSeq(memory, 1, room)) ELSE memory
  IN IF memory \in {<<>>, <<NoPriorRuns>>} \/ fitting = <<>> THEN first
     ELSE first \o <<Delimiter>> \o fitting

\* The first part of split_instruction: all before the first delimiter.
SplitDirective(instruction) ==
  LET ends == {i \in DOMAIN instruction : instruction[i] = Delimiter}
  IN IF ends = {} THEN instruction ELSE SubSeq(instruction, 1, Min(ends) - 1)

-----------------------------------------------------------------------------
(* The note of a run: its row in the Strategy Notes and the JSON in its page *)

RunStatus(exit) == CASE exit = "0" -> "completed" [] exit = "none" -> "stopped" [] OTHER -> "failed"

\* decision is what the loop's feedback said; a loop that crashed has none.
LoopOutcome(decision) ==
  CASE decision = "none" -> "failed" [] decision = "yes" -> "SOTA" [] decision = "no" -> "rejected"

Pieces(seq, limit) ==
  [k \in 1 .. (Len(seq) + limit - 1) \div limit |->
     SubSeq(seq, (k - 1) * limit + 1,
            IF k * limit < Len(seq) THEN k * limit ELSE Len(seq))]

SummaryBlocks(json) ==
  LET blocks == Pieces(Pieces(json, ChunkMax), ChunksMax)
  IN [k \in DOMAIN blocks |-> [json |-> TRUE, parts |-> blocks[k]]]

\* The summary in a page, or nothing: <<>>.
ParseRunSummary(page) ==
  LET code == SelectSeq(page, LAMBDA block : block.json)
      parts == FlattenSeq([k \in DOMAIN code |-> code[k].parts])
      json == FlattenSeq(parts)
  IN IF parts # <<>> /\ json \in DOMAIN Loads THEN <<Loads[json]>> ELSE <<>>

RunSummary(date, exit, instruction, loops) ==
  [date |-> date, status |-> RunStatus(exit), directive |-> SplitDirective(instruction),
   hypotheses |-> [k \in DOMAIN loops |-> <<LoopOutcome(loops[k].decision), loops[k].hypothesis>>]]

NoteDirective(instruction) == Clip(SplitDirective(instruction), ColumnMax)

-----------------------------------------------------------------------------
(* The digest *)

EntryHeader(date, status, directive) ==
  <<date, status>> \o (IF directive = <<>> THEN <<OpenEnded>> ELSE Clip(directive, DirectiveMax))

\* Universe and winner of a run are left out.
SummaryEntry(summary) ==
  EntryHeader(summary.date, summary.status, summary.directive) \o FlattenSeq(summary.hypotheses)

DegradedEntry(date, status, directive) ==
  EntryHeader(date, status, directive) \o <<NoRunSummary>>

\* runs by created_at; directives by id, of which a thread's last one counts.
\* A list_runs that fails gives no runs, a get_directive that fails no directive.
LocalEntries(runs, directives) ==
  LET recent == Reverse(SubSeq(runs, 1 + (IF Len(runs) > DigestRows THEN Len(runs) - DigestRows
                                          ELSE 0), Len(runs)))
      of(run) == SelectSeq(directives, LAMBDA d : d.thread = run.thread)
      objective(run) == IF of(run) = <<>> THEN <<>> ELSE of(run)[Len(of(run))].objective
  IN [k \in DOMAIN recent |-> [date |-> recent[k].date, status |-> recent[k].status,
                               directive |-> objective(recent[k])]]

\* The newest local run whose directive begins like the note's, as far as the
\* shorter of the two goes.
LocalStatus(local, directive) ==
  LET key == Normalized(directive)
      like(item) == LET candidate == Normalized(item.directive)
                    IN candidate # <<>> /\ (IsPrefix(key, candidate) \/ IsPrefix(candidate, key))
      k == SelectInSeq(local, like)
  IN IF key = <<>> \/ k = 0 THEN "status unknown" ELSE local[k].status

\* notes are the rows, newest first, <<>> when Notion fails or the time is up;
\* answered are those whose page came in time.
Entries(notes, answered, local) ==
  LET rows == SubSeq(notes, 1, IF Len(notes) < DigestRows THEN Len(notes) ELSE DigestRows)
      entry(k) ==
        LET summary == IF k \in answered THEN ParseRunSummary(rows[k].page) ELSE <<>>
        IN IF summary # <<>> THEN SummaryEntry(summary[1])
           ELSE DegradedEntry(rows[k].date, LocalStatus(local, rows[k].directive),
                              rows[k].directive)
  IN IF rows # <<>> THEN [k \in DOMAIN rows |-> entry(k)]
     ELSE [k \in DOMAIN local |->
             DegradedEntry(local[k].date, local[k].status, local[k].directive)]

Clamp(text) == IF Len(text) <= DigestMax THEN text ELSE SubSeq(text, 1, DigestMax)

DigestText(incumbent, entries, kept) ==
  <<HeaderText>> \o incumbent \o FlattenSeq(SubSeq(entries, 1, kept))
    \o (IF kept < Len(entries) THEN <<OmittedNote>> ELSE <<>>)

\* _assemble: the oldest are dropped until the rest fits.
Assemble(incumbent, entries) ==
  LET fits == {k \in 0 .. Len(entries) : Len(DigestText(incumbent, entries, k)) <= DigestMax}
      kept == IF fits = {} THEN 0 ELSE Max(fits)
  IN [text |-> Clamp(DigestText(incumbent, entries, kept)), runs |-> kept]

Build(notes, answered, local, incumbent) ==
  LET entries == Entries(notes, answered, local)
  IN IF entries # <<>> THEN Assemble(incumbent, entries)
     ELSE [text |-> IF incumbent = <<NoIncumbent>> THEN <<NoPriorRuns>>
                    ELSE Clamp(<<HeaderText>> \o incumbent \o <<NoPriorRuns>>),
           runs |-> 0]
=============================================================================
