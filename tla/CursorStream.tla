----------------------------- MODULE CursorStream -----------------------------
(***************************************************************************)
(* Capture of a Cursor run (transcript/cursor_stream.rs): the command line *)
(* that makes `agent` print its stream, and the file that its stdout is    *)
(* saved to, which may be loaded while it still grows.                     *)
(*                                                                         *)
(* A command line is a sequence of tokens, one for each kind that the      *)
(* planner or Cursor tells apart.  A stream is the lines written so far    *)
(* and what there is of the next.                                          *)
(***************************************************************************)
EXTENDS Naturals, Sequences, SequencesExt

CONSTANTS
  MaxArgs,     \* of the caller
  MaxStream,   \* lines of a stream
  SessionIds,
  NoId

ASSUME StreamAssumption ==
  MaxArgs \in Nat /\ MaxStream \in Nat /\ NoId \notin SessionIds

VARIABLES
  args,        \* what the caller passes to the planner
  lines,       \* the lines that end in a newline
  tail         \* the last line, cut off or without its newline, or NoTail

cursorVars == <<args, lines, tail>>

---------------------------------------------------------------------------
(* The tokens.                                                             *)

Switches == {"--force"}
ValueOptions == {"--model", "-H"}
OptionalOptions == {"--worktree"}
GlobalOptions == Switches \cup ValueOptions \cup OptionalOptions

Filled == {"--force=x", "--model=x", "-H=x", "--worktree=x"}   \* an option and its value in one
Vacant == {"--model=", "--worktree="}                          \* the value is empty
Attached == {"-Hx"}
Reserved == {"--print", "--output-format"}
EarlyExit == {"--help"}
Unlisted == {"--other"}
Words == {"text", "resume", "agent", "stream-json"}

Option == GlobalOptions \cup Filled \cup Vacant \cup Attached \cup Reserved \cup EarlyExit \cup Unlisted
Token == Option \cup Words \cup {"-", "--"}

\* The commands of Cursor's own.
Commands == {"agent", "resume"}

StartsWithDash(t) == t \notin Words

---------------------------------------------------------------------------
(* plan_args.                                                              *)

Refused == [refused |-> TRUE, options |-> <<>>, prompt |-> <<>>]
Prompt(tokens) == [refused |-> FALSE, options |-> <<>>, prompt |-> tokens]
After(tokens, plan) ==
  [refused |-> plan.refused, options |-> tokens \o plan.options, prompt |-> plan.prompt]

\* A token that is an option by itself: a switch, or one with its value inline.
WholeOption(t) == t \in Switches \cup {"--model=x", "--worktree=x"}

\* A required value is any token but the end of the options.
IsValue(argv) == argv # <<>> /\ Head(argv) # "--"

\* The next token is the worktree's name unless it starts with a dash.
IsName(argv) == argv # <<>> /\ ~StartsWithDash(Head(argv))

\* The options, and the prompt behind them.
OptionsThenPrompt[argv \in Seq(Token)] ==
  IF argv = <<>> THEN Prompt(<<>>)
  ELSE LET t == Head(argv)
           rest == Tail(argv)
           flag == After(<<t>>, OptionsThenPrompt[rest])
           pair == After(<<t, Head(rest)>>, OptionsThenPrompt[Tail(rest)])
       IN
    CASE t = "--" -> Prompt(rest)
      [] t \in Words \cup {"-"} -> Prompt(argv)
      [] WholeOption(t) -> flag
      [] t \in OptionalOptions -> IF IsName(rest) THEN pair ELSE flag
      [] t \in ValueOptions -> IF IsValue(rest) THEN pair ELSE Refused
      [] OTHER -> Refused

StructuredStdout == <<"--print", "--output-format", "stream-json", "agent">>

\* Mutant: the prompt is appended as it is.
AsItIs(prompt) == prompt

\* A prompt goes behind the end of the options.
Guarded(prompt) == IF prompt = <<>> THEN <<>> ELSE <<"--">> \o prompt

PlanArgs(argv) ==
  LET plan == OptionsThenPrompt[argv]
  IN  plan.options \o StructuredStdout \o Guarded(plan.prompt)

---------------------------------------------------------------------------
(* How Cursor reads a command line: options, then operands; an option that *)
(* requires a value takes the next token whatever it is.                   *)

NoValue == "no value"
Reading(options, operands) == [options |-> options, operands |-> operands]
With(t, value, reading) == Reading(<<<<t, value>>>> \o reading.options, reading.operands)

TakesNext(t, argv) ==
  /\ argv # <<>>
  /\ \/ t \in ValueOptions \cup {"--output-format"}
     \/ t \in OptionalOptions /\ ~StartsWithDash(Head(argv))

Reads[argv \in Seq(Token)] ==
  IF argv = <<>> THEN Reading(<<>>, <<>>)
  ELSE LET t == Head(argv)
           rest == Tail(argv)
       IN
    CASE t = "--" -> Reading(<<>>, rest)
      [] t \notin Option \cup {"--"} -> Reading(<<>>, argv)
      [] t \in Option /\ TakesNext(t, rest) -> With(t, Head(rest), Reads[Tail(rest)])
      [] OTHER -> With(t, NoValue, Reads[rest])

\* The command, its options and its operands.
Runs(argv) ==
  LET global == Reads[argv]
      named == global.operands # <<>> /\ Head(global.operands) \in Commands
      local == IF named THEN Reads[Tail(global.operands)] ELSE Reading(<<>>, global.operands)
  IN  [command |-> IF named THEN Head(global.operands) ELSE "agent",
       options |-> global.options \o local.options, prompt |-> local.operands]

---------------------------------------------------------------------------
(* The stream.                                                             *)

\* What a line holds: the init event, another event, each with or without a session
\* id; JSON that is no event; something that is no JSON; nothing.
StreamLine == [kind : {"init", "event"}, id : SessionIds \cup {NoId}]
        \cup {[kind |-> k, id |-> NoId] : k \in {"other", "malformed", "blank"}}
NoTail == [cut |-> FALSE, line |-> [kind |-> "blank", id |-> NoId]]

\* A line that is cut is no JSON: it opens an object that it does not close.
ReadLine(t) == IF t.cut THEN [kind |-> "malformed", id |-> NoId] ELSE t.line

Opening == [refused |-> FALSE, id |-> NoId]
Refuse == [refused |-> TRUE, id |-> NoId]

\* Mutant: an init event is taken wherever it comes.
AnyInit(s, line) ==
  CASE line.kind = "blank" -> s
    [] line.kind = "init" /\ line.id # NoId -> [refused |-> s.refused, id |-> line.id]
    [] line.kind = "event" /\ s.id # NoId /\ line.id \in {NoId, s.id} -> s
    [] OTHER -> Refuse

\* One line: the init event first, no other, and no other session's event.
ApplyEvent(s, line) ==
  IF s.refused \/ line.kind = "blank" THEN s
  ELSE CASE line.kind = "init" /\ s.id = NoId /\ line.id # NoId -> [refused |-> FALSE, id |-> line.id]
         [] line.kind = "event" /\ s.id # NoId /\ line.id \in {NoId, s.id} -> s
         [] OTHER -> Refuse

\* The lines that are whole.
Inspected[text \in Seq(StreamLine)] ==
  IF text = <<>> THEN Opening ELSE ApplyEvent(Inspected[Front(text)], Last(text))

\* The whole file; what is malformed behind the init and has no newline is let pass.
Inspect(whole, last) ==
  LET s == Inspected[whole]
      end == IF ReadLine(last).kind = "malformed" /\ s.id # NoId THEN s ELSE ApplyEvent(s, ReadLine(last))
  IN  IF end.id = NoId THEN Refuse ELSE end

\* The lines of other kinds.
Without(kinds, text) ==
  LET kept[s \in Seq(StreamLine)] ==
        IF s = <<>> THEN <<>>
        ELSE IF Last(s).kind \in kinds THEN kept[Front(s)] ELSE Append(kept[Front(s)], Last(s))
  IN  kept[text]

\* What is valid JSON, as it is.
JsonlToRecords(whole, last) == Without({"malformed", "blank"}, Append(whole, ReadLine(last)))

NotLoaded == [id |-> NoId, records |-> <<>>]
Load(whole, last) ==
  LET s == Inspect(whole, last)
  IN  IF s.refused THEN NotLoaded ELSE [id |-> s.id, records |-> JsonlToRecords(whole, last)]

---------------------------------------------------------------------------
CursorInit == args = <<>> /\ lines = <<>> /\ tail = NoTail

\* A caller passes one argument more (apart from the stream: neither reads the other).
Pass ==
  /\ lines = <<>> /\ tail = NoTail /\ Len(args) < MaxArgs
  /\ \E t \in Token : args' = Append(args, t)
  /\ UNCHANGED <<lines, tail>>

\* `agent` writes a line, in two halves and a newline: between any two it may be
\* loaded, and it may stop for good.
BeginLine ==
  /\ args = <<>> /\ tail = NoTail /\ Len(lines) < MaxStream
  /\ \E l \in StreamLine : l.kind # "blank" /\ tail' = [cut |-> TRUE, line |-> l]
  /\ UNCHANGED <<args, lines>>

Complete ==
  /\ tail.cut /\ tail' = [cut |-> FALSE, line |-> tail.line]
  /\ UNCHANGED <<args, lines>>

Newline ==
  /\ args = <<>> /\ ~tail.cut /\ Len(lines) < MaxStream
  /\ lines' = Append(lines, tail.line) /\ tail' = NoTail
  /\ UNCHANGED args

CursorNext == Pass \/ BeginLine \/ Complete \/ Newline

CursorSpec == CursorInit /\ [][CursorNext]_cursorVars

CursorTypeOK ==
  /\ args \in Seq(Token) /\ Len(args) <= MaxArgs
  /\ lines \in Seq(StreamLine) /\ Len(lines) <= MaxStream
  /\ tail \in [cut : BOOLEAN, line : StreamLine]

---------------------------------------------------------------------------
(* Properties.                                                             *)

\* "keep a prompt such as resume from running another Cursor command": where the
\* planner accepts what a caller passes, Cursor runs an agent that prints its
\* stream, with the caller's prompt and his options, as Cursor itself tells the two
\* apart, and no other.
RunsThePrompt ==
  ~OptionsThenPrompt[args].refused =>
    LET meant == Reads[args]
    IN  Runs(PlanArgs(args)) =
          [command |-> "agent",
           options |-> meant.options \o <<<<"--print", NoValue>>, <<"--output-format", "stream-json">>>>,
           prompt |-> meant.operands]

\* Loaded at any moment, a stream that opens with its init event and has no other
\* session's after it gives that session and every event that is whole by then; any
\* other stream, from the moment that shows, nothing.
LoadsIffOneSession ==
  LET seen == Without({"blank"}, lines)
           \o (IF tail = NoTail \/ ReadLine(tail).kind = "malformed" THEN <<>> ELSE <<tail.line>>)
      one == /\ seen # <<>> /\ seen[1].kind = "init" /\ seen[1].id # NoId
             /\ \A i \in 2 .. Len(seen) : seen[i].kind = "event" /\ seen[i].id \in {NoId, seen[1].id}
  IN  Load(lines, tail) = IF one THEN [id |-> seen[1].id, records |-> seen] ELSE NotLoaded
=============================================================================
