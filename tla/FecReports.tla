----------------------------- MODULE FecReports -----------------------------
(***************************************************************************)
(* Values the sender and the receivers of one FEC-mode lossless session    *)
(* exchange.  A symbol is its id within its block: ids below               *)
(* SymbolsPerBlock are source symbols, the others fountain symbols.        *)
(***************************************************************************)
EXTENDS SessionReports

CONSTANTS
    SymbolsPerBlock,    \* manifest.mode.symbols_per_block
    MaxDeficit,         \* largest deficit_symbols: u16::MAX in the code
    MaxSymbol           \* symbol ids explored are below it: u32::MAX in the code

ASSUME SymbolsAssumption ==
    /\ SymbolsPerBlock \in Nat \ {0}
    /\ MaxDeficit \in Nat /\ SymbolsPerBlock <= MaxDeficit
    /\ MaxSymbol \in Nat /\ SymbolsPerBlock <= MaxSymbol

SymbolIds == 0 .. (MaxSymbol - 1)

\* Block id TotalBlocks stands for every id outside the plan; deficit 0 for a
\* block the report does not list.
ListedIds == 0 .. TotalBlocks
NoDeficit == [b \in ListedIds |-> 0]
FecNone == [kind |-> "None", deficit |-> NoDeficit]
FecComplete == [kind |-> "Complete", deficit |-> NoDeficit]
FecNeed(d) == [kind |-> "Fec", deficit |-> d]

\* What decode_control can return; a Plain report is one value, as a FEC
\* session never looks into it.
FecWireReports ==
    {FecComplete, [kind |-> "Plain", deficit |-> NoDeficit]}
    \cup {FecNeed(d) : d \in [ListedIds -> 0 .. MaxDeficit] \ {NoDeficit}}

\* validate_need_report for a FEC manifest
ValidFecNeed(report) ==
    \/ report = FecComplete
    \/ report.kind = "Fec" /\ report.deficit[TotalBlocks] = 0
=============================================================================
