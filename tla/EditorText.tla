----------------------------- MODULE EditorText -----------------------------
(***************************************************************************)
(* The text of the two editors of an application's form, written and read  *)
(* by web/admin/src/api.ts.  A text is a sequence of characters; of those  *)
(* that mean nothing to the code one is enough.                            *)
(*                                                                         *)
(* The code reads line by line with a look at the next character; here one *)
(* pass over the characters keeps what it needs to know of the ones        *)
(* before.                                                                 *)
(***************************************************************************)
EXTENDS Naturals, Sequences, SequencesExt

CONSTANTS
  MaxArgs, MaxLength,   \* Bounds: arguments of a list, characters of one.
  MaxSole               \* Bound: characters of an argument by itself.

ASSUME TextAssumption == {MaxArgs, MaxLength, MaxSole} \subseteq Nat

VARIABLE written   \* What is written to the editor and read back.

Space == " "
Newline == "\n"
Hash == "#"
Equals == "="
Single == "'"
Double == "\""
Backslash == "\\"
Whitespace == {Space, Newline}
Chars == {"a", Space, Newline, Hash, Single, Double, Backslash}

-----------------------------------------------------------------------------
(* Command-line arguments.                                                 *)

(* Variant: an argument is quoted for the characters in it alone.          *)
NeedsQuotesByContent(arg) ==
  arg = <<>> \/ \E n \in DOMAIN arg : arg[n] \in Whitespace \cup {Single, Double, Backslash}

NeedsQuotes(arg) ==
  \/ arg = <<>> \/ Head(arg) = Hash
  \/ \E n \in DOMAIN arg : arg[n] \in Whitespace \cup {Single, Double, Backslash}

EscapeChar(ch) == IF ch \in {Backslash, Double} THEN <<Backslash, ch>> ELSE <<ch>>
Escape(arg) == FlattenSeq([n \in DOMAIN arg |-> EscapeChar(arg[n])])

ArgToText(arg) == IF NeedsQuotes(arg) THEN <<Double>> \o Escape(arg) \o <<Double>> ELSE arg

Lines(texts) ==
  FlattenSeq([n \in DOMAIN texts |-> IF n = 1 THEN texts[n] ELSE <<Newline>> \o texts[n]])

ArgsToText(args) == Lines([n \in DOMAIN args |-> ArgToText(args[n])])

(* start: nothing but whitespace so far on a line that began outside       *)
(* quotes; comment: in a line to skip; escaped: after a backslash.         *)
Begin == [args |-> <<>>, current |-> <<>>, hasToken |-> FALSE, quote |-> "none",
          start |-> TRUE, comment |-> FALSE, escaped |-> FALSE]

Add(p, ch) == [p EXCEPT !.current = Append(@, ch), !.hasToken = TRUE,
                        !.start = FALSE, !.escaped = FALSE]

OpenQuote(p, ch) == [p EXCEPT !.quote = ch, !.hasToken = TRUE, !.start = FALSE]

Flush(p) ==
  IF p.hasToken
  THEN [p EXCEPT !.args = Append(@, p.current), !.current = <<>>, !.hasToken = FALSE]
  ELSE p

(* A backslash that ends its line stands for itself.                       *)
Settle(p) == IF p.escaped THEN Add(p, Backslash) ELSE p

EndLine(p) ==
  IF p.quote # "none" THEN Add(Settle(p), Newline)
  ELSE [Flush(Settle(p)) EXCEPT !.start = TRUE, !.comment = FALSE]

ReadChar(p, ch) ==
  CASE ch = Newline                                  -> EndLine(p)
    [] ch # Newline /\ p.comment                     -> p
    [] ch # Newline /\ ~p.comment /\ p.escaped       -> Add(p, ch)
    [] ch # Newline /\ ~p.comment /\ ~p.escaped ->
         CASE p.start /\ ch = Hash                   -> [p EXCEPT !.comment = TRUE]
           [] p.quote = ch                           -> [p EXCEPT !.quote = "none"]
           [] p.quote = "none" /\ ch \in {Single, Double} -> OpenQuote(p, ch)
           [] p.quote # Single /\ ch = Backslash     -> [p EXCEPT !.escaped = TRUE, !.start = FALSE]
           [] p.quote = "none" /\ ch = Space         -> Flush(p)
           [] OTHER                                  -> Add(p, ch)

ParseArgsText(text) == Flush(Settle(FoldLeft(ReadChar, Begin, text))).args

-----------------------------------------------------------------------------
(* Environment variables.                                                  *)

EnvVarsToText(vars) == Lines([n \in DOMAIN vars |-> vars[n].name \o <<Equals>> \o vars[n].value])

Trim(line) ==
  LET inked == {n \in DOMAIN line : line[n] \notin Whitespace}
  IN  IF inked = {} THEN <<>>
      ELSE SubSeq(line, CHOOSE n \in inked : \A m \in inked : n <= m,
                        CHOOSE n \in inked : \A m \in inked : n >= m)

NameEnds(line) ==
  LET at == {n \in DOMAIN line : line[n] = Equals}
  IN  IF at = {} THEN Len(line) + 1 ELSE CHOOSE n \in at : \A m \in at : n <= m

ParseEnvLine(line) ==
  [name |-> Trim(SubSeq(line, 1, NameEnds(line) - 1)),
   value |-> SubSeq(line, NameEnds(line) + 1, Len(line))]

(* text.split("\n") and the loop over the lines.                           *)
Split(lines, ch) ==
  IF ch = Newline THEN Append(lines, <<>>) ELSE [lines EXCEPT ![Len(lines)] = Append(@, ch)]

PushVar(vars, rawLine) ==
  LET line == Trim(rawLine)
  IN  IF line = <<>> \/ Head(line) = Hash THEN vars ELSE Append(vars, ParseEnvLine(line))

ParseEnvText(text) == FoldLeft(PushVar, <<>>, FoldLeft(Split, <<<<>>>>, text))

-----------------------------------------------------------------------------

Texts(chars, n) == UNION {[1 .. m -> chars] : m \in 0 .. n}
ArgLists == (UNION {[1 .. m -> Texts(Chars, MaxLength)] : m \in 0 .. MaxArgs})
              \cup {<<arg>> : arg \in Texts(Chars, MaxSole)}

(* A value the editor can hold: on one line, with no whitespace at its     *)
(* end.  A name is what ValidateEnvVarName admits.                         *)
EnvChars == {"a", Space, Hash, Equals}
EnvValues == {v \in Texts(EnvChars, MaxLength) : v = <<>> \/ Last(v) # Space}
EnvLists == UNION {[1 .. m -> [name : {<<"a">>, <<"b">>}, value : EnvValues]] : m \in 0 .. MaxArgs}

TextTypeOK == written.args \in ArgLists /\ written.env \in EnvLists

ArgsRead == ParseArgsText(ArgsToText(written.args)) = written.args
EnvRead == ParseEnvText(EnvVarsToText(written.env)) = written.env

(***************************************************************************)
(* api.ts:225-228: a list of arguments written to the editor is read back  *)
(* as the same list, whatever is in them; one that begins with "#" would   *)
(* be taken for a comment and dropped.  Variables are read back as they    *)
(* were, also with an "=" or "#" in a value.  Their editor cannot hold a   *)
(* value that ends in whitespace or has a newline, which the server admits. *)
(***************************************************************************)
TextsRoundTrip == ArgsRead /\ EnvRead

=============================================================================
