------------------------------ MODULE MCDisarm ------------------------------
EXTENDS Disarm, TLC

\* Webhooks are alike, and so are the documents' texts.
Alike == Permutations(Hooks) \cup Permutations(Bodies)
=============================================================================
