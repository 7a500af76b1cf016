----------------------------- MODULE MCServices -----------------------------
(***************************************************************************)
(* What is around a run and shares no state: the documents that are loaded  *)
(* before it, the output of runtree-headless with the log database, the     *)
(* main loop of the GUI, the sizes of its terminals, the uploads of         *)
(* rtrunner, the language server; and, for itself, the debouncer of the     *)
(* scheduler.  A behaviour is one of a single service, which part chooses.  *)
(***************************************************************************)
EXTENDS Headless, LanguageServer, MainLoop, Uploads, TerminalSize, MCDocuments

CONSTANTS start1, start2, awake,
          Debounced, Worker   \* the values and the goroutines of the debouncer

VARIABLES part,
          chs, pc, val, owed  \* of the debouncer

Debounce == INSTANCE Debouncer WITH Value <- Debounced, Cache <- FALSE
debouncerVars == <<chs, pc, val, owed>>

(* The runs of runtree-headless: the texts have every way to end a line, cut *)
(* into reads at the CR and inside of lines; in the log database two reads   *)
(* are one chunk, or two.                                                    *)
Run(m, l, t) == [output |-> m, log |-> l, text |-> t]
One(t)       == [s \in {start1} |-> t]
Two(t, u)    == [s \in Start |-> IF s = start1 THEN t ELSE u]
MCRuns ==
  {Run("all", FALSE, One(<<<<"a", "CR">>, <<"LF", "LF">>>>)),
   Run("all", FALSE, One(<<<<"a">>, <<"b", "CR">>, <<"c", "LF", "CR">>>>)),
   Run("all", FALSE, One(<<<<"a", "LF", "a">>, <<"CR">>, <<"CR", "LF">>>>)),
   Run("all", TRUE, One(<<<<"a", "CR", "b">>, <<"CR">>>>)),
   Run("none", TRUE, One(<<<<"a">>, <<"LF">>>>)),
   Run("failed", FALSE, One(<<<<"CR">>, <<"CR", "LF", "a">>, <<"b">>>>)),
   Run("failed", FALSE, Two(<<<<"a", "LF">>, <<"a">>>>, <<<<"b">>>>)),
   Run("none", FALSE, Two(<<<<"a">>>>, <<<<"b">>>>))}

(* A tree that includes the library, a text that is wrong.                   *)
MCText ==
  {[tree |-> TRUE, includes |-> {"lib"}, wrong |-> FALSE],
   [tree |-> FALSE, includes |-> {}, wrong |-> TRUE]}

(* What is not chosen stays in its simplest initial state.                   *)
Init ==
  /\ part \in {"headless", "loop", "size", "uploads", "language", "documents", "debouncer"}
  /\ HeadlessInit /\ (part # "headless" => mode = "none" /\ ~logging)
  /\ LspInit /\ (part # "language" => disk = [f \in File |-> NoText])
  /\ LoopInit /\ UploadInit
  /\ IF part = "documents" THEN DocInit ELSE doc = [kind |-> "none"] /\ loaded = None
  /\ Debounce!Init /\ (part # "debouncer" => \A w \in Worker : val[w] = awake)
  /\ SizeInit /\ (part # "size" => area = size /\ area = "small")

Only(p, next) == part = p /\ next /\ UNCHANGED part

Next ==
  \/ Only("headless", HeadlessNext) /\ UNCHANGED <<lspVars, loopVars, sizeVars, uploadVars, docVars, debouncerVars>>
  \/ Only("language", LspNext)      /\ UNCHANGED <<headlessVars, loopVars, sizeVars, uploadVars, docVars, debouncerVars>>
  \/ Only("loop", LoopNext)         /\ UNCHANGED <<headlessVars, lspVars, sizeVars, uploadVars, docVars, debouncerVars>>
  \/ Only("size", SizeNext)         /\ UNCHANGED <<headlessVars, lspVars, loopVars, uploadVars, docVars, debouncerVars>>
  \/ Only("uploads", UploadNext)    /\ UNCHANGED <<headlessVars, lspVars, loopVars, sizeVars, docVars, debouncerVars>>
  \/ Only("documents", DocNext)     /\ UNCHANGED <<headlessVars, lspVars, loopVars, sizeVars, uploadVars, debouncerVars>>
  \/ Only("debouncer", Debounce!Next)
     /\ UNCHANGED <<headlessVars, lspVars, loopVars, sizeVars, uploadVars, docVars>>

vars == <<part, debouncerVars, headlessVars, lspVars, loopVars, sizeVars, uploadVars, docVars>>

Spec == Init /\ [][Next]_vars /\ HeadlessFairness /\ Debounce!Fairness

(* What the debouncer promises, see there: no request is lost, ...           *)
NoLostCall == Debounce!NoLostCall

(* ... no entry is left behind, ...                                          *)
NoStaleEntry == Debounce!NoStaleEntry

(* ... and it is a Coalescer.                                                *)
ImplementsCoalescer == Debounce!ImplementsCoalescer
=============================================================================
