----------------------------- MODULE MCConsole ------------------------------
(***************************************************************************)
(* Three CPUs.  Before the program starts one of them formats every        *)
(* conversion of a set, with types of 3, 4, 6 and 8 bits and a buffer of 9 *)
(* characters for numbers; then the three share the console and two lines. *)
(***************************************************************************)
EXTENDS Console, TLC

CONSTANTS c1, c2, c3

MCBoards == {[uart |-> b, gpio |-> b] : b \in BOOLEAN}

D(flags, width, prec, size, spec, num, str) ==
  [flags |-> flags, width |-> width, prec |-> prec, size |-> size,
   spec |-> spec, num |-> num, str |-> str]
Junk(n) == [i \in 0 .. n - 1 |-> "junk"]

Flagged == SUBSET {"ZEROPAD", "LEFT", "PLUS", "SPACE"}
Precisions == {<< >>, <<0>>, <<1>>, <<3>>}

\* -2^(w-1), 2^(w-1) - 1 and neighbours of the widths 3, 4, 6 and 8
Numbers == {0, 1, 7, 8, 31, 32, 63, 127, 128, 255}

Conversions ==
  {D(f, w, p, s, k, n, << >>) : f \in Flagged, w \in {0, 3, -5}, p \in Precisions,
     s \in {"none", "l"}, k \in {"d", "x"}, n \in {0, 1, 32, 128, 255}}
  \cup {D({}, w, p, s, k, n, << >>) : w \in {0, 9, -12}, p \in {<< >>, <<-1>>, <<9>>},
     s \in {"hh", "h", "none", "ll"}, k \in {"u", "X", "o", "b", "i"}, n \in Numbers}
  \cup {D(f, w, << >>, "none", k, n, << >>) : f \in {{"HASH"}, {"HASH", "ZEROPAD"}}, w \in {0, 2, 3},
     k \in {"x", "X", "o", "b", "d"}, n \in {0, 5, 31}}
  \cup {D(f, w, p, "none", "s", 0, t) : f \in {{}, {"LEFT"}}, w \in {0, 3, -3}, p \in Precisions,
     t \in {<< >>, <<"a">>, <<"a", "b">>}}
  \cup {D(f, w, << >>, "none", "c", 0, <<t>>) : f \in {{}, {"LEFT"}}, w \in {0, 1, 3}, t \in {"a", Nul}}
  \cup {D({}, 0, << >>, "none", k, n, << >>) : k \in {"p", "%"}, n \in {0, 1, 171, 255}}

Sized == <<Lit("h"), D({}, 3, << >>, "none", "d", 63, << >>), Lit("t")>>
Hello == Kprintf(<<Lit(Nul), Lit("i")>>)
MCBootCalls ==
  [null |-> {Ksnprintf(Junk(13), 13, <<d>>) : d \in Conversions}
            \cup {Ksnprintf(Junk(7), n, Sized) : n \in 0 .. 7} \cup {Hello},
   bound |-> {Hello}, up |-> {Hello, Kputs(1), Kputchar}]

Piece(n) == [ok |-> TRUE, len |-> n]
Bad == [ok |-> FALSE, len |-> 1]
MCRunCalls ==
  c1 :> {Read(0, TRUE, 1), Writev(1, TRUE, <<Piece(1), Piece(0), Piece(2)>>),
         Ioctl(3, "set", TRUE, {0, 1}, {0})}
  @@ c2 :> {Writev(1, TRUE, <<Piece(1), Bad>>), Close(1), Ioctl(3, "set", TRUE, {1}, {1})}
  @@ c3 :> {Kprintf(<<D({}, 0, << >>, "none", "d", 1, << >>)>>), Write(1, TRUE, 1),
            Ioctl(3, "get", TRUE, {0, 1}, {}), Ioctl(3, "other", TRUE, {}, {}),
            Write(2, FALSE, 1), Write(4, TRUE, 1), Read(0, TRUE, 0), Read(3, TRUE, 1),
            Poll(TRUE, <<3>>), Writev(3, TRUE, <<Piece(1)>>), Writev(1, FALSE, << >>)}
MCMaxCalls == NoCpu :> 1 @@ c1 :> 1 @@ c2 :> 1 @@ c3 :> 1
=============================================================================
