----------------------------- MODULE CacheBeside -----------------------------
(* The file cache under names of its own, so that it can stand in one       *)
(* module beside other programs of threads: MCThreads runs it there,        *)
(* ThreadProofs proves about it.                                            *)
CONSTANTS CacheClients, MaxSlots, MaxBytes, Requests, NoOne

VARIABLES at, client_sock, sock, inbox, order, byte_start, bytes_size, index, found,
          least_used_index, start, left, slots, file, cache_mutex, replies, evicted,
          stolen

Cache == INSTANCE FileCache WITH pc <- at, Clients <- CacheClients

ASSUME CacheAssumption == Cache!CacheParameters

(* As long as no slot was given away and no thread has unlocked the mutex   *)
(* for another, a reader is sent the block it asked for as last written.    *)
ReadsFresh == Cache!ReadsFresh
=============================================================================
