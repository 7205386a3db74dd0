----------------------------- MODULE MCExecutor -----------------------------
EXTENDS Executor

CONSTANTS a, b,          \* two sites
          j, k,          \* two answers
          none

\* A page behind the paywall, the mining page when its daemon answers with no more
\* than credits and top hash (to a nonce, whose request for the new job fails), the
\* mining page.
MCShapes == {{"credits"}, {"name", "credits", "top_hash"}, Fields}

\* With all of the work or none of it, balances left out.
UnpaidShapes == {{}, {"name"}, {"name"} \cup WorkFields}

MCSymmetry == Permutations({a, b}) \cup Permutations({j, k})
=============================================================================
