------------------------- MODULE MCMessageRegistry -------------------------
(***************************************************************************)
(* Two groups that number their messages alike, a friend, a message that   *)
(* QQ sends without its correlation, replies to it, and a private message  *)
(* whose random is zero, in a table of three rows with four identifiers.   *)
(***************************************************************************)
EXTENDS MessageRegistry, TLC

CONSTANTS a1, b1, own, friend, reply, hollow, quote, other

MCMessages == {a1, b1, own, friend, reply, hollow}
MCConversationOf ==
  a1 :> "A" @@ b1 :> "B" @@ own :> "F" @@ friend :> "F" @@ reply :> "F"
     @@ hollow :> "F"
MCIsGroup == [m \in MCMessages |-> m \in {a1, b1}]
MCSequenceOf == a1 :> 1 @@ b1 :> 1 @@ own :> 3 @@ friend :> 0 @@ reply :> 4
     @@ hollow :> 5
MCCorrelated == [m \in MCMessages |-> m # friend]
MCAcceptable == [m \in MCMessages |-> m # hollow]
MCQuoteOf ==
  a1 :> other @@ b1 :> NoQuote @@ own :> NoQuote @@ friend :> quote
     @@ reply :> NoQuote @@ hollow :> NoQuote
MCReplyTo ==
  [m \in MCMessages |-> IF m = reply THEN quote
                        ELSE IF m = b1 THEN other ELSE NoQuote]
MCOwn == {own}
=============================================================================
