------------------------------- MODULE MsgSplit -------------------------------
(* msgsplit.go: the relay cuts the client's stream at the ends of transport *)
(* packets before it writes them into WebSocket frames.                      *)
EXTENDS Naturals, Sequences

\* Bytes still to come, the splitter's buffer, the frames written and whether
\* cutting was given up.
NoStream == [proto |-> "none", todo |-> <<>>, buf |-> <<>>, out |-> <<>>, disabled |-> FALSE]

newMsgSplitter(proto, bytes) == [NoStream EXCEPT !.proto = proto, !.todo = bytes]

Wait == [ok |-> FALSE, n |-> 0]

Length(header, payload) == [ok |-> TRUE, n |-> IF payload = 0 THEN 0 ELSE header + payload]

\* Length of the packet at the head of the buffer; 0 where the code returns -1.
nextLen(proto, buf) ==
    CASE proto = "abridged" /\ buf # <<>> /\ Head(buf) \in {127, 255} ->
            IF Len(buf) < 4 THEN Wait
            ELSE Length(4, (buf[2] + buf[3] * 256 + buf[4] * 65536) * 4)
      [] proto = "abridged" /\ buf # <<>> /\ Head(buf) \notin {127, 255} ->
            Length(1, (Head(buf) % 128) * 4)
      [] proto = "intermediate" /\ Len(buf) >= 4 ->
            Length(4, buf[1] + buf[2] * 256 + buf[3] * 65536 + (buf[4] % 128) * 16777216)
      [] OTHER -> Wait

\* The loop of split: f[i] is what is written for the buffer from byte i + 1 on.
Cut(proto, buf) ==
    LET f[i \in 0..Len(buf)] ==
            LET rest == SubSeq(buf, i + 1, Len(buf))
                next == nextLen(proto, rest)
            IN  CASE ~next.ok \/ next.n > Len(rest) -> [out |-> <<>>, buf |-> rest, disabled |-> FALSE]
                  [] next.ok /\ next.n = 0 -> [out |-> <<rest>>, buf |-> <<>>, disabled |-> TRUE]
                  [] OTHER -> LET r == f[i + next.n] IN [r EXCEPT !.out = <<SubSeq(rest, 1, next.n)>> \o @]
    IN  f[0]

\* A read of n bytes.
split(s, n) ==
    LET chunk == SubSeq(s.todo, 1, n)
        todo == SubSeq(s.todo, n + 1, Len(s.todo))
        r == Cut(s.proto, s.buf \o chunk)
    IN  IF s.disabled THEN [s EXCEPT !.todo = todo, !.out = Append(@, chunk)]
        ELSE [s EXCEPT !.todo = todo, !.buf = r.buf, !.out = @ \o r.out, !.disabled = r.disabled]

\* The read side failed: what is buffered is written as it is.
flush(s) == IF s.buf = <<>> THEN s ELSE [s EXCEPT !.buf = <<>>, !.out = Append(@, s.buf)]

=============================================================================
