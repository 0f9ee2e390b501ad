------------------------------ MODULE MCTrim ------------------------------
(***************************************************************************)
(* Instances of Trim for TLC.  Chat holds a message twice and an image in  *)
(* two messages; Compacted keeps one of its messages and has the image at  *)
(* the top, a member that does not parse and one nested too deep; Prose is *)
(* no JSON; Crumbs has a history of elements of one byte each.             *)
(***************************************************************************)
EXTENDS Trim

Node(kind, key, parent, depth, start, end) ==
  [kind |-> kind, key |-> key, parent |-> parent, depth |-> depth,
   start |-> start, end |-> end, uri |-> FALSE, parses |-> TRUE]

M1 == <<"{", "a", "i", "i", "}">>
M2 == <<"{", "b", "i", "i", "}">>

Chat == [json |-> TRUE,
  bytes |-> <<"{", "p", "q", "p", "[">> \o M1 \o M2 \o M1 \o <<"]", "}">>,
  nodes |-> <<Node("object", "none", 0, 0, 0, 22),
              Node("string", "whole", 1, 1, 1, 4),
              Node("array", "history", 1, 1, 4, 21),
              Node("object", "none", 3, 2, 5, 10), Node("string", "media", 4, 3, 7, 9),
              Node("object", "none", 3, 2, 10, 15), Node("string", "media", 6, 3, 12, 14),
              Node("object", "none", 3, 2, 15, 20), Node("string", "media", 8, 3, 17, 19)>>]

Compacted == [json |-> TRUE,
  bytes |-> <<"{", "[">> \o M2 \o <<"{", "c", "}", "]", "i", "i", "t", "{", "x", "x", "x",
              "[", "[", "d", "d", "d", "]", "]", "}">>,
  nodes |-> <<Node("object", "none", 0, 0, 0, 26),
              Node("array", "history", 1, 1, 1, 11),
              Node("object", "none", 2, 2, 2, 7), Node("string", "media", 3, 3, 4, 6),
              Node("object", "none", 2, 2, 7, 10),
              Node("string", "media", 1, 1, 11, 13),
              Node("other", "whole", 1, 1, 13, 14),
              [Node("object", "other", 1, 1, 14, 18) EXCEPT !.parses = FALSE],
              Node("string", "other", 8, 2, 15, 18),
              Node("array", "other", 1, 1, 18, 25), Node("array", "none", 10, 2, 19, 24),
              Node("string", "none", 11, 3, 20, 23)>>]

Prose == [json |-> FALSE, nodes |-> <<>>,
  bytes |-> <<"p", "q", "p", "p", "q", "q", "q", "p", "p", "p", "p", "p", "p">>]

Crumbs == [json |-> TRUE,
  bytes |-> <<"{", "[", "a", "b", "c", "d", "p", "q", "i", "x", "t", "]", "}">>,
  nodes |-> <<Node("object", "none", 0, 0, 0, 13), Node("array", "history", 1, 1, 1, 12)>>
            \o [i \in 1 .. 9 |-> Node("other", "none", 2, 2, i + 1, i + 2)]]

Plain == [enabled |-> TRUE, min_body |-> 4, max_body |-> 40, min_block |-> 3,
          min_history |-> 2, min_payload |-> 2, max_instrs |-> 12, max_depth |-> 2,
          cdc_min |-> 2, cdc_max |-> 4, cdc_bits |-> 1, cdc_fallback |-> TRUE,
          max_block |-> 6]

AllBodies   == {Chat, Compacted, Prose, Crumbs}
AllPolicies == {Plain,
                [Plain EXCEPT !.max_instrs = 5, !.min_body = 12, !.max_body = 24],
                [Plain EXCEPT !.min_history = 1, !.cdc_fallback = FALSE, !.max_block = 4]}
Odd == [b \in {"{", "}", "[", "]", "a", "b", "c", "d", "i", "p", "q", "t", "x"} |->
          IF b \in {"q", "d", "}"} THEN 0 ELSE 1]
=============================================================================
