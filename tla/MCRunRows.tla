----------------------------- MODULE MCRunRows -----------------------------
(***************************************************************************)
(* RunRows with two Slack threads, one of them with two handlers.  What a  *)
(* run is told of earlier ones is checked here too, for short texts.       *)
(***************************************************************************)
EXTENDS RunRows, RunMemory

CONSTANTS t1, t2, h1, h2, h3

MCThreadOf == [h \in Handler |-> IF h = h3 THEN t2 ELSE t1]

MCSymbol == {"x", "y", Blank, Delimiter, Ellipsis, NoPriorRuns}
TextsOf(symbols, n) == UNION {[1 .. k -> symbols] : k \in 0 .. n}
Texts == TextsOf({"x", "y", Blank, Delimiter}, 3)
Plain == TextsOf({"x", "y", Blank}, 3)
MCLoads == [json \in TextsOf({"x"}, 9) |->
              RunSummary("day", "0", <<"x">>, [k \in DOMAIN json |-> [decision |-> "no",
                                                                   hypothesis |-> "y"]])]

\* A run is told its directive first and in full, and the record of it is what it
\* would be without any memory (compose_instruction, split_instruction).
ASSUME MemoryLeavesNoTrace ==
  \A directive, digest \in Texts :
    LET instruction == Compose(directive, digest)
    IN /\ NoteDirective(instruction) = NoteDirective(Stripped(directive))
       /\ IsPrefix(Stripped(directive), instruction)
       /\ Len(instruction) <= InstructionMax \/ instruction = Stripped(directive)

\* Cut into pieces Notion takes, among other blocks, a summary of any length
\* reads back as it was (run_summary_blocks, parse_run_summary).
ASSUME SummaryReadsBack ==
  \A json \in DOMAIN MCLoads \ {<<>>} :
    LET prose == <<[json |-> FALSE, parts |-> <<<<"y">>>>]>>
        blocks == SummaryBlocks(json)
    IN /\ ParseRunSummary(prose \o blocks \o prose) = <<Loads[json]>>
       /\ \A k \in DOMAIN blocks :
            /\ Len(blocks[k].parts) <= ChunksMax
            /\ \A i \in DOMAIN blocks[k].parts : Len(blocks[k].parts[i]) <= ChunkMax

\* A digest never outgrows its bound; what it counts is in it whole, the newest
\* runs, and as many of them as the bound leaves room for (_assemble).
ASSUME NewestAreTold ==
  \A incumbent \in TextsOf({"x"}, 6), lengths \in TextsOf(1 .. 4, 3) :
    LET run == <<"first", "second", "third">>
        entries == [k \in DOMAIN lengths |-> [i \in 1 .. lengths[k] |-> run[k]]]
        digest == Assemble(incumbent, entries)
        told(n) == SelectSeq(digest.text, LAMBDA symbol : symbol = run[n])
        length(n) == 1 + Len(incumbent) + (IF n < Len(entries) THEN 1 ELSE 0)
                       + Cardinality({<<k, i>> \in (1 .. n) \X (1 .. 4) : i <= lengths[k]})
    IN /\ Len(digest.text) <= DigestMax
       /\ \A n \in DOMAIN entries :
            told(n) = (IF n <= digest.runs THEN entries[n] ELSE <<>>)
       /\ \A n \in digest.runs + 1 .. Len(entries) : length(n) > DigestMax

\* A note without a summary is told with the status of its own run, when no other
\* thread's objective begins like this one, whatever constraints and memory the
\* run was given, and as long as the objective fits the column (_local_status).
ASSUME OwnStatusIsTold ==
  \A objective, other \in Plain, constraints \in TextsOf({"x", Blank}, 2), digest \in TextsOf({"y"}, 2) :
    LET runs == <<[thread |-> 1, status |-> "completed", date |-> "day"],
                  [thread |-> 2, status |-> "stopped", date |-> "later"]>>
        directives == <<[thread |-> 1, objective |-> <<"y", "x">>], [thread |-> 2, objective |-> other],
                        [thread |-> 1, objective |-> objective]>>
        instruction == Compose(DirectiveInstruction(objective, constraints), digest)
    IN (/\ Solid(objective) # {} /\ Len(objective) < ColumnMax
        /\ Solid(other) # {} => Stripped(other)[1] # Stripped(objective)[1]) =>
         LocalStatus(LocalEntries(runs, directives), NoteDirective(instruction)) = "completed"
=============================================================================
