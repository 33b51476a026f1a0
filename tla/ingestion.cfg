\* Concurrent requests, retries and failures.
SPECIFICATION FairSpec
CONSTANTS
    q1 = q1  q2 = q2  q3 = q3  q4 = q4  q5 = q5  q6 = q6
    a1 = a1  a2 = a2  b1 = b1  b2 = b2
    Requests = {q1, q2, q3, q4, q5, q6}
    Agents = {a1, a2}
    Batches = {b1, b2}
    AgentOf <- MCAgentOf
    BatchOf <- MCBatchOf
    Authorized = {q1, q2, q3, q4, q6}
    Valid = {q1, q2, q3, q4, q5}
INVARIANTS
    OneEventPerBatch
    AnswersAreTrue
PROPERTIES
    RequestsEnd
\* Every request ends with an answer.
CHECK_DEADLOCK FALSE
