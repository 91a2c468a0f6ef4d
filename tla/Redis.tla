--------------------------------- MODULE Redis --------------------------------
(***************************************************************************)
(* The part of a Redis server that the drivers rely on: named values, each *)
(* with the instant of Redis' own clock up to which it lives.  A keyspace  *)
(* db is a function from the names in use; a command is an operator on it. *)
(***************************************************************************)
EXTENDS Integers

Never == -1                     \* the expiry of a key that PEXPIRE never met

(* The Redis keys of one rate limit key: <<key, part, window>>.            *)
Plain(key) == <<key, "", 0>>
SeqKey(key) == <<key, "seq", 0>>
WindowKey(key, window) == <<key, "window", window>>

Get(db, name, absent) == IF name \in DOMAIN db THEN db[name].value ELSE absent

(* HMSET, INCR and ZADD keep the expiry of the key they change.            *)
Put(db, name, value) ==
    [n \in DOMAIN db \cup {name} |->
        IF n # name THEN db[n]
        ELSE [value |-> value,
              expireAt |-> IF n \in DOMAIN db THEN db[n].expireAt ELSE Never]]

PExpire(db, name, at, ms) == [db EXCEPT ![name].expireAt = at + ms]

Del(db, names) == [n \in DOMAIN db \ names |-> db[n]]

(* What is left of a keyspace at an instant.                               *)
Live(db, at) ==
    Del(db, {n \in DOMAIN db : db[n].expireAt # Never /\ db[n].expireAt < at})

(* The keyspace a script leaves and the array it returns.                  *)
Reply(db, allowed, remaining, resetMs) ==
    [db |-> db,
     reply |-> [allowed |-> allowed, remaining |-> remaining, resetMs |-> resetMs]]
===============================================================================
