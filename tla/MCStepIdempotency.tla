--------------------------- MODULE MCStepIdempotency ---------------------------
EXTENDS StepIdempotency

CONSTANTS c1, c2, c3, h1, h2

\* Two retries of one activity, and a caller that reuses the key for other data.
MCPayloadHash == [c \in Callers |-> IF c = c3 THEN h2 ELSE h1]

\* The clock of one worker runs ahead of the database's.
MCSkew == [c \in Callers |-> IF c = c2 THEN 1 ELSE 0]

================================================================================
