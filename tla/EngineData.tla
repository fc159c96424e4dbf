------------------------------ MODULE EngineData ------------------------------
(* The data an engine session handles: the options of a pipeline, the data     *)
(* sections and their reader, and what the two products of a decompile call    *)
(* are made from. Shared by HelixEngine and by its contract.                   *)
EXTENDS Naturals, Sequences, FiniteSets

CONSTANTS
    Ir, NoIr,       \* non-empty LLVM IR texts a caller submits, and no text
    Addr,           \* virtual addresses the passes may read
    Bytes,          \* contents of a data section
    NoBytes,        \* the answer of the reader where no section covers
    StringsOf,      \* Ir -> the sections named by its !helix.strings metadata
    StartsOf,       \* Ir -> function starts named by its own metadata
    CallerSections, \* sections a caller may add
    StartTables,    \* non-empty function-start tables a caller may set
    DebugInfos, NoDebug,         \* debug-type JSON payloads, and the empty one
    OldNames, NewNames, NoName,  \* variable renames
    Nightly,        \* passes the engine knows how to enable selectively
    UnknownPass,    \* any other name given to enablePass
    TextSize, HastSize,          \* Ir -> size of its pseudo-C and of its HAST
    Capacities,     \* buffer capacities a caller offers, zero included
    MaxSections     \* bound of the model on registered sections

ASSUME SizesAreNat == /\ TextSize \in [Ir -> Nat]
                      /\ HastSize \in [Ir -> Nat]
                      /\ Capacities \subseteq Nat
ASSUME NamesDiffer == /\ NoBytes \notin Bytes
                      /\ NoDebug \notin DebugInfos
                      /\ NoName \notin NewNames
                      /\ UnknownPass \notin Nightly
                      /\ NoIr \notin Ir

Section == [span : SUBSET Addr, bytes : Bytes]

ASSUME SectionsTyped == /\ StringsOf \in [Ir -> Seq(Section)]
                        /\ StartsOf \in [Ir -> SUBSET Addr]
                        /\ CallerSections \subseteq Section
                        /\ StartTables \subseteq ((SUBSET Addr) \ {{}})

Debug == DebugInfos \cup {NoDebug}
Renaming == [OldNames -> NewNames \cup {NoName}]
NoRenames == [o \in OldNames |-> NoName]

PipeOptions == [skip : BOOLEAN, preserve : BOOLEAN, useCast : BOOLEAN,
                selective : BOOLEAN, enabled : SUBSET Nightly,
                renames : Renaming, starts : SUBSET Addr, debug : Debug]

(* A newly constructed Pipeline. *)
FreshPipe(skip) == [skip |-> skip, preserve |-> FALSE, useCast |-> TRUE,
                    selective |-> FALSE, enabled |-> {},
                    renames |-> NoRenames, starts |-> {}, debug |-> NoDebug]

(* The options buildPassPipeline reads, frozen in a pass manager. *)
PassOptions == [skip : BOOLEAN, preserve : BOOLEAN, useCast : BOOLEAN,
                selective : BOOLEAN, enabled : SUBSET Nightly]
NotBuilt == [built |-> FALSE]
PassOptionsOf(p) == [skip |-> p.skip, preserve |-> p.preserve,
                     useCast |-> p.useCast, selective |-> p.selective,
                     enabled |-> p.enabled]

(* Of them, what enablePass sets: the passes selected by name.               *)
Selected(o) == [selective |-> o.selective, enabled |-> o.enabled]
Open == [chosen |-> FALSE]

(* The reader of the scoped provider: the first section covering an address. *)
View(sections) ==
    [a \in Addr |->
        LET first == {i \in DOMAIN sections :
                        /\ a \in sections[i].span
                        /\ \A j \in 1..(i-1) : a \notin sections[j].span}
        IN  IF first = {} THEN NoBytes
            ELSE sections[CHOOSE i \in first : TRUE].bytes]

Apis == {"combined", "text", "hast"}
Status == {"never", "ok", "invalid", "internal", "outOfMemory"}

(* What a product was made from: every input that can change its bytes. *)
Made == [ir : Ir, lowered : PassOptions, emitCast : BOOLEAN,
         renames : Renaming, starts : SUBSET Addr, debug : Debug,
         view : [Addr -> Bytes \cup {NoBytes}]]
Nothing == [empty |-> TRUE]
Products == Made \cup {Nothing}

(* A call in progress as its caller sees it; the combined call has no buffer. *)
NoRequest == [api |-> "combined", ir |-> NoIr, cap |-> 0]

Failed(status, outLen) == [status |-> status, outLen |-> outLen,
                           text |-> Nothing, hast |-> Nothing]

(* The caller has taken the products; status and error stay readable. *)
Taken(o) == [o EXCEPT !.outLen = 0, !.text = Nothing, !.hast = Nothing]

Needed(api, ir) == IF api = "text" THEN TextSize[ir] + 1 ELSE HastSize[ir]
===============================================================================
