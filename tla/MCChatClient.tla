----------------------------- MODULE MCChatClient -----------------------------
\* Runs of each kind are interchangeable.
EXTENDS ChatClient

Symmetry == Permutations(Users) \cup Permutations(Selves)
=============================================================================
