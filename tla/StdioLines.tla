----------------------------- MODULE StdioLines -----------------------------
(***************************************************************************)
(* The framing of the stdio transport: splitLines of lib/stdioProtocol.js  *)
(* over the buffer that a reader of stdin keeps, with the input cut into   *)
(* chunks anywhere.  Characters are what splitLines tells apart.           *)
(***************************************************************************)
EXTENDS Naturals, Sequences, SequencesExt

CONSTANTS
  MaxInput, MaxChunk   \* bounds: characters of the input, and of a chunk

StdioAssumption == MaxInput \in Nat /\ MaxChunk \in Nat \ {0}

NL == "newline"
CR == "return"
Blank == "blank"
Chars == {"x", Blank, CR, NL}

VARIABLES
  buffer,   \* what has been read and not yet split
  lines,    \* handed on, one message each
  input     \* all that has been read

stdioVars == <<buffer, lines, input>>

Init == buffer = <<>> /\ lines = <<>> /\ input = <<>>

\* Mutant: the \r of a line ends it as well.
StripAll(line) == SelectSeq(line, LAMBDA c : c # CR)

\* .replace(/\r$/, "")
Strip(line) ==
  IF line # <<>> /\ Last(line) = CR THEN Front(line) ELSE line

\* line.trim() is not empty.
HasText(line) == \E i \in DOMAIN line : line[i] \notin {Blank, CR}

\* A character of the buffer: a newline ends the line, which is kept if it has text.
Scan(s, c) ==
  LET line == Strip(s.rest) IN
  CASE c # NL -> [s EXCEPT !.rest = Append(@, c)]
    [] c = NL /\ HasText(line) -> [lines |-> Append(s.lines, line), rest |-> <<>>]
    [] OTHER -> [s EXCEPT !.rest = <<>>]

\* Mutant: what follows the last newline is a line, too.
SplitEverything(text) ==
  LET after[n \in 0 .. Len(text)] ==
        IF n = 0 THEN [lines |-> <<>>, rest |-> <<>>] ELSE Scan(after[n - 1], text[n])
      end == after[Len(text)]
  IN [lines |-> IF HasText(end.rest) THEN Append(end.lines, end.rest) ELSE end.lines,
      rest |-> <<>>]

\* splitLines: the lines and, as the rest, the remainder.
SplitLines(text) ==
  LET after[n \in 0 .. Len(text)] ==
        IF n = 0 THEN [lines |-> <<>>, rest |-> <<>>] ELSE Scan(after[n - 1], text[n])
  IN after[Len(text)]

\* A chunk of stdin.
Read(chunk) ==
  LET split == SplitLines(buffer \o chunk) IN
  /\ Len(input) + Len(chunk) <= MaxInput
  /\ lines' = lines \o split.lines
  /\ buffer' = split.rest
  /\ input' = input \o chunk

Next == \E n \in 1 .. MaxChunk : \E chunk \in [1 .. n -> Chars] : Read(chunk)

Spec == Init /\ [][Next]_stdioVars

----------------------------------------------------------------------------
(* Properties *)

\* The reference, by positions: the line that ends at i lies between the newline before i
\* and i, without a \r at its end.
LineAt(text, i) ==
  LET before == {j \in 1 .. i - 1 : text[j] = NL}
      first == 1 + (IF before = {} THEN 0 ELSE CHOOSE j \in before : \A k \in before : k <= j)
      body == SubSeq(text, first, i - 1)
  IN IF body # <<>> /\ body[Len(body)] = CR THEN SubSeq(body, 1, Len(body) - 1) ELSE body

\* Where the messages of the input end.
Ends(text) ==
  {i \in 1 .. Len(text) :
     text[i] = NL /\ \E k \in DOMAIN LineAt(text, i) : LineAt(text, i)[k] = "x"}

\* Wherever the chunks are cut, within a line, between \r and \n or after several lines,
\* each message comes out once, whole and in order.
FramingIsExact ==
  /\ Len(lines) = Cardinality(Ends(input))
  /\ \A i \in Ends(input) :
       lines[Cardinality({j \in Ends(input) : j <= i})] = LineAt(input, i)
=============================================================================
