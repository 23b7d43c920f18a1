---------------------------- MODULE MCRedisLock ----------------------------
EXTENDS RedisLock
\* Commands that fail, are sent again or come late; a quiet network; stalls.
Worlds == {{"net", "retry", "crash", "cancel"}, {"crash", "cancel"},
           {"stall", "net", "crash"}}
=============================================================================
