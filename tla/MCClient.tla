------------------------------- MODULE MCClient -------------------------------
EXTENDS Client, TLC

CONSTANTS ruth, saul, ann, ben, xena

\* xena adds her key late; ruth and saul have signed at a party, ann and ben will sign
\* xena's.
MCStart == <<ruth, saul, ann, ben>>
MCGiven ==
    (ruth :> <<saul>>) @@ (saul :> <<>>) @@ (ann :> <<ruth, saul>>) @@ (ben :> <<ruth>>)
      @@ (xena :> <<>>)
MCHand == {<<ann, xena>>, <<ben, xena>>}
=============================================================================
