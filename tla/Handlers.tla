------------------------------ MODULE Handlers ------------------------------
(***************************************************************************)
(* The table of commands (Dispatcher::Dispatcher): verbs as the bytes that *)
(* memcmp compares, with the least and the greatest number of arguments,   *)
(* and the number a handler reads of a command that has passed that check. *)
(***************************************************************************)
Entry(v, min, max, reads) == [verb |-> v, min |-> min, max |-> max, reads |-> reads]

\* In the order of the constructor.
Handlers == <<
    Entry(<<71, 69, 84>>, 1, 1, 1),                              \* GET
    Entry(<<83, 69, 84>>, 1, 2, 2),                              \* SET
    Entry(<<68, 69, 76>>, 1, 1, 1),                              \* DEL
    Entry(<<73, 78, 67, 82>>, 1, 2, 1),                          \* INCR
    Entry(<<68, 69, 67, 82>>, 1, 2, 1),                          \* DECR
    Entry(<<83, 65, 68, 68>>, 2, 2, 2),                          \* SADD
    Entry(<<83, 77, 69, 77, 66, 69, 82, 83>>, 2, 2, 1),          \* SMEMBERS
    Entry(<<83, 73, 83, 77, 69, 77, 66, 69, 82>>, 2, 2, 2),      \* SISMEMBER
    Entry(<<83, 82, 69, 77>>, 2, 2, 2),                          \* SREM
    Entry(<<76, 80, 85, 83, 72>>, 2, 2, 2),                      \* LPUSH
    Entry(<<82, 80, 85, 83, 72>>, 2, 2, 2),                      \* RPUSH
    Entry(<<76, 76, 69, 78>>, 1, 1, 1),                          \* LLEN
    Entry(<<76, 82, 65, 78, 71, 69>>, 3, 3, 3),                  \* LRANGE
    Entry(<<76, 80, 79, 80>>, 1, 1, 1),                          \* LPOP
    Entry(<<82, 80, 79, 80>>, 1, 1, 1),                          \* RPOP
    Entry(<<90, 65, 68, 68>>, 3, 3, 3),                          \* ZADD
    Entry(<<90, 67, 65, 82, 68>>, 1, 1, 1),                      \* ZCARD
    Entry(<<90, 82, 69, 77>>, 2, 2, 2),                          \* ZREM
    Entry(<<90, 83, 67, 79, 82, 69>>, 2, 2, 2),                  \* ZSCORE
    Entry(<<90, 67, 79, 85, 78, 84>>, 3, 3, 3) >>                \* ZCOUNT
=============================================================================
