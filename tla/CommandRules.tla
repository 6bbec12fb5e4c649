---------------------------- MODULE CommandRules ----------------------------
(***************************************************************************)
(* CommandRules (src/src/command_rules.cpp): the table of the commands     *)
(* that may be forwarded over a connection which many clients share.       *)
(*                                                                         *)
(* A command as a client spells it is a word and whether it is written in  *)
(* capitals; the table has the rules by spelling, as the code has them by  *)
(* string.  The flags read and write of a rule are never looked at.        *)
(***************************************************************************)
EXTENDS Integers, Sequences

CONSTANTS Unlisted,    \* words of which the table says nothing
          Argcs,       \* numbers of strings in a command
          Overrides    \* what setRuleForTest() is called with: [word, rule]

VARIABLES
  rules,       \* rules_
  overridden   \* the last rule set for each word that setRuleForTest() has set

vars == <<rules, overridden>>

UINT16_MAX == 65535

Spelled(word, capitals) == [word |-> word, capitals |-> capitals]

normalize(command) == Spelled(command.word, TRUE)

-----------------------------------------------------------------------------
(* Default(): rows of commands, and the fewest and the most strings of each. *)

Allowed == <<
  <<{"PING"}, 1, 2>>,
  <<{"GET", "GETDEL", "STRLEN", "INCR", "DECR", "SMEMBERS", "SCARD", "LLEN",
     "HGETALL", "HKEYS", "HVALS", "HLEN", "ZCARD", "PTTL", "PERSIST", "TYPE",
     "TTL"}, 2, 2>>,
  <<{"SPOP", "SRANDMEMBER", "LPOP", "RPOP", "HRANDFIELD", "ZPOPMIN", "ZPOPMAX",
     "ZRANDMEMBER"}, 2, 3>>,
  <<{"MGET", "GETEX", "SINTER", "SUNION", "SDIFF", "UNLINK", "TOUCH", "DEL",
     "EXISTS"}, 2, UINT16_MAX>>,
  <<{"GETSET", "SETNX", "APPEND", "INCRBY", "DECRBY", "INCRBYFLOAT", "SISMEMBER",
     "LINDEX", "RPOPLPUSH", "HGET", "HEXISTS", "HSTRLEN", "ZSCORE", "ZRANK",
     "ZREVRANK", "RENAME", "RENAMENX"}, 3, 3>>,
  <<{"EXPIREAT", "EXPIRE"}, 3, 4>>,
  <<{"SET", "MSET", "MSETNX", "SADD", "SREM", "SMISMEMBER", "SINTERSTORE",
     "SUNIONSTORE", "SDIFFSTORE", "LPUSH", "RPUSH", "LPUSHX", "RPUSHX", "LPOS",
     "HMGET", "HDEL", "ZREM", "ZMSCORE", "ZINTER", "ZINTERSTORE", "ZUNION",
     "ZUNIONSTORE", "ZDIFF", "ZDIFFSTORE"}, 3, UINT16_MAX>>,
  <<{"SETEX", "PSETEX", "GETRANGE", "SETRANGE", "SMOVE", "LRANGE", "LSET", "LREM",
     "LTRIM", "HINCRBY", "HINCRBYFLOAT", "HSETNX", "ZINCRBY", "ZCOUNT",
     "ZLEXCOUNT", "ZREMRANGEBYRANK", "ZREMRANGEBYSCORE", "ZREMRANGEBYLEX"}, 4, 4>>,
  <<{"HSET", "HMSET", "ZADD", "ZRANGE", "ZREVRANGE", "ZRANGEBYSCORE",
     "ZREVRANGEBYSCORE", "ZRANGEBYLEX", "ZREVRANGEBYLEX"}, 4, UINT16_MAX>>,
  <<{"LINSERT", "LMOVE"}, 5, 5>>,
  <<{"ZRANGESTORE"}, 5, UINT16_MAX>> >>

Denied == {
  "AUTH", "SELECT", "CLIENT", "HELLO", "MULTI", "EXEC", "DISCARD", "WATCH",
  "UNWATCH", "SUBSCRIBE", "PSUBSCRIBE", "SSUBSCRIBE", "UNSUBSCRIBE",
  "PUNSUBSCRIBE", "SUNSUBSCRIBE", "PUBLISH", "PUBSUB", "SPUBLISH", "BLPOP",
  "BRPOP", "BLMOVE", "BLMPOP", "BZPOPMIN", "BZPOPMAX", "BZMPOP", "BRPOPLPUSH",
  "XREAD", "XREADGROUP", "DEBUG", "MODULE", "CONFIG", "SHUTDOWN", "SAVE",
  "BGSAVE", "BGREWRITEAOF", "FLUSHDB", "FLUSHALL", "KEYS", "SCAN", "SCRIPT",
  "EVAL", "EVALSHA", "FUNCTION", "ACL", "MONITOR", "SYNC", "PSYNC"}

AllowedWords == UNION {Allowed[i][1] : i \in DOMAIN Allowed}
Words == AllowedWords \cup Denied \cup Unlisted

Rule(allowed, min, max, dangerous) ==
  [allowed |-> allowed, min_argc |-> min, max_argc |-> max, dangerous |-> dangerous]

allow(min, max) == Rule(TRUE, min, max, FALSE)
deny == Rule(FALSE, 0, 0, TRUE)

Default ==
  [c \in {Spelled(w, TRUE) : w \in AllowedWords \cup Denied} |->
     IF c.word \in Denied THEN deny
     ELSE LET i == CHOOSE k \in DOMAIN Allowed : c.word \in Allowed[k][1]
          IN  allow(Allowed[i][2], Allowed[i][3])]

-----------------------------------------------------------------------------
Init == rules = Default /\ overridden = <<>>

Fits(rule, argc) ==
  rule.allowed /\ ~rule.dangerous /\ argc >= rule.min_argc /\ argc <= rule.max_argc

\* Variant: a command that is not in the table passes.
validateUnlisted(command, argc) ==
  LET c == normalize(command) IN c \in DOMAIN rules => Fits(rules[c], argc)

\* Whether the command may be forwarded.  It changes nothing.
validate(command, argc) ==
  LET c == normalize(command) IN c \in DOMAIN rules /\ Fits(rules[c], argc)

setRuleForTest(command, rule) ==
  /\ LET n == normalize(command)
     IN  rules' = [c \in DOMAIN rules \cup {n} |-> IF c = n THEN rule ELSE rules[c]]
  /\ overridden' = [w \in DOMAIN overridden \cup {command.word} |->
                      IF w = command.word THEN rule ELSE overridden[w]]

Next == \E o \in Overrides, b \in BOOLEAN : setRuleForTest(Spelled(o.word, b), o.rule)

Spec == Init /\ [][Next]_vars

-----------------------------------------------------------------------------
(* Properties *)

\* What a connection shared between clients cannot carry, because it changes the
\* state of the connection, waits, or is not answered by exactly one reply.
NotForSharing == {
  "AUTH", "HELLO", "SELECT", "CLIENT", "RESET", "QUIT", "READONLY", "READWRITE",
  "ASKING", "MULTI", "EXEC", "DISCARD", "WATCH", "UNWATCH", "SUBSCRIBE",
  "PSUBSCRIBE", "SSUBSCRIBE", "UNSUBSCRIBE", "PUNSUBSCRIBE", "SUNSUBSCRIBE",
  "MONITOR", "SYNC", "PSYNC", "REPLCONF", "BLPOP", "BRPOP", "BLMOVE", "BLMPOP",
  "BZPOPMIN", "BZPOPMAX", "BZMPOP", "BRPOPLPUSH", "XREAD", "XREADGROUP", "WAIT",
  "WAITAOF", "SHUTDOWN", "DEBUG"}

\* No command that validate() lets through, in any spelling and with any number
\* of strings, breaks what the backend channels rely on: one reply to each
\* command, soon, and no trace on the connection of the client it came from.
\* A rule set by hand answers for itself.
ForwardedCanBeShared ==
  \A w \in Words \ DOMAIN overridden, b \in BOOLEAN, n \in Argcs :
    validate(Spelled(w, b), n) => w \notin NotForSharing

=============================================================================
