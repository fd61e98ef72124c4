-------------------------- MODULE TokenAccounting --------------------------
(***************************************************************************)
(* The token accounting of activity_log.py over the lines of a transcript. *)
(* A line is [message, context, output]: the message it is a block of, and *)
(* the usage it reports for that message, its three kinds of input added   *)
(* up.  Message 0 stands for every line the accounting skips: side chains, *)
(* other events, lines without usage or that are not JSON.                 *)
(***************************************************************************)
EXTENDS Integers, Sequences, FiniteSets

\* f[1] + ... + f[n].
Total(f, n) ==
    LET upTo[k \in Nat] == IF k = 0 THEN 0 ELSE upTo[k - 1] + f[k]
    IN upTo[n]

\* The k-th smallest member.
Nth(S, k) == CHOOSE i \in S : Cardinality({j \in S : j < i}) = k - 1

\* Bug: every line of a message counts.
AllLines(lines) == SelectSeq(lines, LAMBDA line : line.message # 0)

\* assistant_messages: the first line of each message, in order.
AssistantMessages(lines) ==
    LET first == {i \in DOMAIN lines :
                    /\ lines[i].message # 0
                    /\ \A j \in 1..(i - 1) : lines[j].message # lines[i].message}
    IN [k \in 1..Cardinality(first) |-> lines[Nth(first, k)]]

AtLeast0(n) == IF n > 0 THEN n ELSE 0

\* Bug: a smaller context is not taken for a compaction.
TurnNeverCompacted(context, output, growth) ==
    LET result == AtLeast0(growth - output)
    IN [context |-> context, output |-> output, result |-> result,
        discarded |-> growth - output - result, compacted |-> FALSE]

\* The context grows by the output of a turn and by the result of its tools.
\* What these do not explain is discarded: it is negative after a compaction.
Turn(context, output, growth) ==
    LET result == AtLeast0(growth - output)
        discarded == growth - output - result
    IN [context |-> context, output |-> output, result |-> result,
        discarded |-> discarded, compacted |-> discarded < 0]

\* Nothing is known of what follows the last message.
ExtractTurns(lines) ==
    LET m == AssistantMessages(lines)
    IN [k \in DOMAIN m |->
            IF k < Len(m)
            THEN Turn(m[k].context, m[k].output, m[k + 1].context - m[k].context)
            ELSE [context |-> m[k].context, output |-> m[k].output, result |-> 0,
                  discarded |-> 0, compacted |-> FALSE]]

\* The sum of one part of the turns, each for every later turn.
Reread(turns, part) ==
    Total([k \in DOMAIN turns |-> turns[k][part] * (Len(turns) - k)], Len(turns))

\* with_context_tax, summed up.
ContextTax(turns) == Reread(turns, "result")

Observed(turns) ==
    Total([k \in DOMAIN turns |-> IF k = 1 THEN 0 ELSE turns[k].context], Len(turns))

Balanced(turns) ==
    \/ turns = <<>>
    \/ turns[1].context * (Len(turns) - 1)
        + Reread(turns, "output")
        + Reread(turns, "result")
        + Reread(turns, "discarded")
       = Observed(turns)

Compacted(turns) == \E k \in DOMAIN turns : turns[k].compacted

IsMeasurable(turns) == turns # <<>> /\ Balanced(turns) /\ ~Compacted(turns)
=============================================================================
