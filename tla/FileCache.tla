------------------------------ MODULE FileCache ------------------------------
(***************************************************************************)
(* EXAMS/30.01.2024/server.c: a thread per client reads and writes one file*)
(* through a cache of slots, each with one block of it.                    *)
(*                                                                         *)
(* get_from_cache locks once but unlocks after every scan, so from its     *)
(* second scan on it looks at the slots without the mutex and unlocks it   *)
(* for whoever holds it.  What a block holds is its version: how many      *)
(* times it was written.  All requests are for one file, for a byte at the *)
(* least; a write is to the first block, elsewhere saved[byte_start] is    *)
(* outside of the array.                                                   *)
(***************************************************************************)
EXTENDS Integers, Sequences

CONSTANTS Clients,      \* connections, each gets a thread of the same name
          MaxSlots,     \* MAX_CACHE_SLOTS
          MaxBytes,     \* MAX_CACHE_BYTES
          Requests,     \* what a client may ask for, one after the other
          NoOne

Order == [op : {"r", "w"}, start : Nat, size : Nat \ {0}]
CacheParameters ==
    /\ MaxSlots \in Nat \ {0} /\ MaxBytes \in Nat \ {0}
    /\ NoOne \notin Clients
    /\ Requests \subseteq Seq(Order)
    /\ \A orders \in Requests : \A i \in DOMAIN orders :
          orders[i].op = "w" => orders[i].start + orders[i].size <= MaxBytes

VARIABLES pc,           \* where each thread is
          client_sock,  \* the variable of main every thread gets a pointer to
          sock,         \* what each thread has read from it
          inbox,        \* the request of each client, while nobody has read it
          order,        \* the request a thread works on
          byte_start, bytes_size, index, found,   \* locals of get_from_cache
          least_used_index, start, left,      \* locals of store_cache
          slots,        \* the cache
          file,         \* the versions on disk of the blocks written so far
          cache_mutex,
          replies,      \* what each client was sent: [block, version]
          evicted,      \* a slot was given to another block
          stolen        \* a thread has unlocked the mutex another one had

cacheVars == <<pc, client_sock, sock, inbox, order, byte_start, bytes_size, index,
               found, least_used_index, start, left, slots, file, cache_mutex,
               replies, evicted, stolen>>
historyVars == <<evicted, stolen>>
requestVars == <<client_sock, sock, inbox, order>>
getVars == <<byte_start, bytes_size, found>>
storeVars == <<least_used_index, start, left>>
localVars == <<getVars, index, storeVars>>

Block(p) == p \div MaxBytes
Start(p) == Block(p) * MaxBytes
NoBlock  == -1
Version(b) == IF b \in DOMAIN file THEN file[b] ELSE 0
SlotNos  == 0 .. MaxSlots - 1

CacheInit ==
    /\ pc = [t \in Clients |-> "none"]
    /\ client_sock = NoOne
    /\ sock = [t \in Clients |-> NoOne]
    /\ inbox \in [Clients -> Requests]
    /\ order = [t \in Clients |-> [op |-> "r", start |-> 0, size |-> 1]]
    /\ byte_start = [t \in Clients |-> 0]
    /\ bytes_size = [t \in Clients |-> 0]
    /\ index = [t \in Clients |-> 0]
    /\ found = [t \in Clients |-> FALSE]
    /\ least_used_index = [t \in Clients |-> -1]
    /\ start = [t \in Clients |-> 0]
    /\ left = [t \in Clients |-> 0]
    /\ slots = [i \in SlotNos |-> [is_used |-> FALSE, byte_start |-> 0,
                                   block |-> NoBlock, version |-> 0]]
    /\ file = <<>>
    /\ cache_mutex = NoOne
    /\ replies = [c \in Clients |-> <<>>]
    /\ evicted = FALSE /\ stolen = FALSE

-----------------------------------------------------------------------------
Go(t, from, to) == pc[t] = from /\ pc' = [pc EXCEPT ![t] = to]
Set(f, t, v) == [f EXCEPT ![t] = v]

(* main                                                                    *)
Accept(c) == /\ Go(c, "none", "read_sock")
             /\ client_sock' = c
             /\ UNCHANGED <<sock, inbox, order, localVars, slots, file, cache_mutex,
                            replies, historyVars>>

(* handle_client: the socket is read when the thread gets to run.          *)
ReadSock(t) == /\ Go(t, "read_sock", "recv")
               /\ sock' = Set(sock, t, client_sock)
               /\ UNCHANGED <<client_sock, inbox, order, localVars, slots, file,
                              cache_mutex, replies, historyVars>>

Receive(t) == /\ Go(t, "recv", "lock")
              /\ inbox[sock[t]] # <<>>
              /\ order' = Set(order, t, Head(inbox[sock[t]]))
              /\ inbox' = Set(inbox, sock[t], Tail(inbox[sock[t]]))
              /\ byte_start' = Set(byte_start, t, order'[t].start)
              /\ bytes_size' = Set(bytes_size, t, order'[t].size)
              /\ UNCHANGED <<client_sock, sock, index, found, storeVars,
                             slots, file, cache_mutex, replies, historyVars>>

(* get_from_cache and write_to_cache                                       *)
LockCache(t) == /\ cache_mutex = NoOne
                /\ Go(t, "lock", "scan")
                /\ cache_mutex' = t
                /\ index' = Set(index, t, 0)
                /\ found' = Set(found, t, FALSE)
                /\ UNCHANGED <<requestVars, byte_start, bytes_size, storeVars,
                                slots, file, replies, historyVars>>

Hit(t) == LET ch == slots[index[t]]
          IN  /\ ch.is_used
              /\ byte_start[t] \in ch.byte_start .. ch.byte_start + MaxBytes - 1

Scan(t) == /\ pc[t] = "scan"
           /\ IF index[t] = MaxSlots
              THEN pc' = Set(pc, t, "unlock") /\ UNCHANGED index
              ELSE IF Hit(t) THEN pc' = Set(pc, t, "copy") /\ UNCHANGED index
              ELSE index' = Set(index, t, index[t] + 1) /\ UNCHANGED pc
           /\ UNCHANGED <<requestVars, getVars, storeVars, slots, file,
                          cache_mutex, replies, historyVars>>

(* size is the number of bytes sent from this slot, none in every part but *)
(* the first.  When the request reaches past the block, the scan begins    *)
(* again one byte behind the next block's first.                           *)
size(t) == bytes_size[t] % MaxBytes
Beyond(t) == byte_start[t] + bytes_size[t]
                 > slots[index[t]].byte_start + MaxBytes
NextPart(t) ==
    IF Beyond(t)
    THEN /\ byte_start' = Set(byte_start, t,
                              slots[index[t]].byte_start + MaxBytes + 1)
         /\ bytes_size' = Set(bytes_size, t, bytes_size[t] - size(t))
         /\ index' = Set(index, t, 0)
         /\ found' = Set(found, t, FALSE)
         /\ pc' = Set(pc, t, "scan")
    ELSE /\ found' = Set(found, t, TRUE)
         /\ pc' = Set(pc, t, "unlock")
         /\ UNCHANGED <<byte_start, bytes_size, index>>

CopyOut(t) == LET ch == slots[index[t]]
              IN  /\ pc[t] = "copy" /\ order[t].op = "r"
                  /\ replies' = [replies EXCEPT ![sock[t]] =
                         IF size(t) = 0 THEN @
                         ELSE Append(@, [block |-> ch.block, version |-> ch.version])]
                  /\ NextPart(t)
                  /\ UNCHANGED <<requestVars, storeVars, slots, file,
                                 cache_mutex, historyVars>>

(* Variant: the file is not written.                                       *)
CopyInOnly(t) == /\ pc[t] = "copy" /\ order[t].op = "w"
                 /\ slots' = [slots EXCEPT ![index[t]].version = @ + 1]
                 /\ NextPart(t)
                 /\ UNCHANGED <<requestVars, storeVars, file, cache_mutex, replies,
                                historyVars>>

(* write_to_file writes the whole slot back where its byte_start says.     *)
CopyIn(t) == LET i == index[t]
             IN  /\ pc[t] = "copy" /\ order[t].op = "w"
                 /\ slots' = [slots EXCEPT ![i].version = @ + 1]
                 /\ LET b == Block(slots[i].byte_start)
                    IN  file' = [c \in DOMAIN file \cup {b} |->
                                   IF c = b THEN slots[i].version + 1 ELSE file[c]]
                 /\ NextPart(t)
                 /\ UNCHANGED <<requestVars, storeVars, cache_mutex, replies,
                                historyVars>>

(* Variant: the mutex is not given back after a scan.                      *)
KeepScan(t) == /\ Go(t, "unlock", IF found[t] THEN "recv" ELSE "store")
               /\ UNCHANGED <<requestVars, localVars, slots, file, cache_mutex,
                              replies, historyVars>>

(* Whoever holds the mutex.                                                *)
UnlockScan(t) == /\ Go(t, "unlock", IF found[t] THEN "recv" ELSE "store")
                 /\ cache_mutex' = NoOne
                 /\ stolen' = (stolen \/ cache_mutex \notin {NoOne, t})
                 /\ UNCHANGED <<requestVars, localVars, slots, file, replies, evicted>>

-----------------------------------------------------------------------------
(* store_cache, which works on copies of byte_start and bytes_size.        *)
LockStore(t) == /\ cache_mutex = NoOne
                /\ Go(t, "store", "fill")
                /\ cache_mutex' = t
                /\ index' = Set(index, t, 0)
                /\ least_used_index' = Set(least_used_index, t, -1)
                /\ start' = Set(start, t, byte_start[t])
                /\ left' = Set(left, t, bytes_size[t])
                /\ UNCHANGED <<requestVars, getVars, slots, file, replies, historyVars>>

(* The for loop, one slot at a time: a free slot is in use before its block*)
(* is read, and two threads may see it free.                               *)
Filling(t) == pc[t] = "fill" /\ left[t] > 0 /\ index[t] < MaxSlots

SeeFree(t) == /\ Filling(t) /\ ~slots[index[t]].is_used
              /\ pc' = Set(pc, t, "claim")
              /\ UNCHANGED <<requestVars, localVars, slots, file, cache_mutex,
                             replies, historyVars>>

Claim(t) == /\ Go(t, "claim", "load")
            /\ slots' = [slots EXCEPT ![index[t]].is_used = TRUE,
                                      ![index[t]].byte_start = Start(start[t])]
            /\ UNCHANGED <<requestVars, localVars, file, cache_mutex, replies,
                           historyVars>>

Loaded(i, b) == [slots EXCEPT ![i].block = b, ![i].version = Version(b)]

Load(t) == LET rest == left[t] - (left[t] % MaxBytes)
               block == Start(start[t])
           IN  /\ Go(t, "load", "fill")
               /\ slots' = Loaded(index[t], Block(start[t]))
               /\ left' = Set(left, t, rest)
               /\ IF start[t] + rest > block + MaxBytes
                  THEN /\ start' = Set(start, t, block + MaxBytes + 1)
                       /\ index' = Set(index, t, 1)
                  ELSE index' = Set(index, t, index[t] + 1) /\ UNCHANGED start
               /\ UNCHANGED <<requestVars, getVars, least_used_index, file,
                              cache_mutex, replies, historyVars>>

(* used_nr stays 0, so the first used slot seen remains the least used.    *)
SeeUsed(t) == /\ Filling(t) /\ slots[index[t]].is_used
              /\ least_used_index' = Set(least_used_index, t,
                     IF least_used_index[t] = -1 THEN index[t]
                     ELSE least_used_index[t])
              /\ index' = Set(index, t, index[t] + 1)
              /\ UNCHANGED <<pc, requestVars, getVars, start, left, slots,
                             file, cache_mutex, replies, historyVars>>

(* The block is read without lseek, from the beginning of the file.  With  *)
(* every slot free at the start there is no least used one, and the store  *)
(* goes in front of the cache.                                             *)
Full(t) == pc[t] = "fill" /\ left[t] > 0 /\ index[t] = MaxSlots
Evict(t) == LET off == start[t] - Start(start[t])
                i == least_used_index[t]
            IN  /\ Full(t) /\ i >= 0
                /\ slots' = [Loaded(i, 0) EXCEPT ![i].byte_start = Start(start[t])]
                /\ left' = Set(left, t, off)
                /\ start' = Set(start, t, IF 2 * off > MaxBytes
                                          THEN Start(start[t]) + MaxBytes + 1
                                          ELSE start[t])
                /\ index' = Set(index, t, 0)
                /\ evicted' = TRUE
                /\ UNCHANGED <<pc, requestVars, getVars, least_used_index, file,
                               cache_mutex, replies, stolen>>
CrashInStore(t) == /\ Full(t) /\ least_used_index[t] = -1
                   /\ pc' = [u \in Clients |-> "crashed"]
                   /\ UNCHANGED <<requestVars, localVars, slots, file,
                                  cache_mutex, replies, historyVars>>

StoreDone(t) == /\ pc[t] = "fill" /\ left[t] = 0
                /\ cache_mutex' = NoOne
                /\ pc' = Set(pc, t, "scan")
                /\ index' = Set(index, t, 0)
                /\ UNCHANGED <<requestVars, getVars, storeVars, slots, file, replies,
                               historyVars>>

CacheStep(t) ==
    \/ ReadSock(t) \/ Receive(t) \/ LockCache(t) \/ Scan(t) \/ CopyOut(t)
    \/ CopyIn(t) \/ UnlockScan(t) \/ LockStore(t) \/ SeeFree(t)
    \/ Claim(t) \/ Load(t) \/ SeeUsed(t) \/ Evict(t) \/ CrashInStore(t) \/ StoreDone(t)
CacheNext == \E t \in Clients : Accept(t) \/ CacheStep(t)

CacheSpec == CacheInit /\ [][CacheNext]_cacheVars

(* The threads run on.                                                     *)
CacheFairness == \A t \in Clients : WF_cacheVars(CacheStep(t))

-----------------------------------------------------------------------------
CacheTypeOK == /\ cache_mutex \in Clients \cup {NoOne}
               /\ \A t \in Clients : index[t] \in 0 .. MaxSlots
               /\ \A i \in SlotNos : slots[i].block \in Nat \cup {NoBlock}

(* As long as no slot was given away and no thread has unlocked the mutex  *)
(* another one had, what a reader is sent is the block it asked for, as it *)
(* was last written, although from the second scan on slots are looked at  *)
(* without the mutex, one may be seen in use before its block is there, and*)
(* several may hold one block.                                             *)
ReadsFresh ==
    [][\A t \in Clients :
          CopyOut(t) /\ size(t) > 0 /\ ~evicted /\ ~stolen =>
             LET r == replies'[sock[t]][Len(replies'[sock[t]])]
             IN  r.block = Block(byte_start[t]) /\ r.version = Version(r.block)]_cacheVars

(* A request is served, although threads unlock the mutex for each other;  *)
(* what can prevent it is a thread in store_cache that evicts for ever, one*)
(* that looks for the next block with no byte left to ask for, so that     *)
(* store_cache stores nothing, the end of the process, or a client whose   *)
(* socket no thread has.                                                   *)
Spins == \E t \in Clients : /\ pc[t] = "fill" /\ left[t] > 0
                            /\ \A i \in SlotNos : slots[i].is_used
Seeks == \E t \in Clients : /\ pc[t] \in {"scan", "unlock", "store", "fill"}
                            /\ bytes_size[t] = 0 /\ ~found[t]
                            /\ \A i \in SlotNos : slots[i].is_used =>
                                  Block(slots[i].byte_start) # Block(byte_start[t])
Orphan(c) == \A t \in Clients : pc[t] # "none" /\ sock[t] # c
Resting(t) == pc[t] \in {"none", "recv"}
CacheServed ==
    \A c \in Clients : pc[c] # "none" => \/ Spins \/ Seeks
                                         \/ Orphan(c)
                                         \/ pc[c] = "crashed"
                                         \/ inbox[c] = <<>> /\ \A t \in Clients : Resting(t)
=============================================================================
