--------------------------- MODULE EveryoneProofs ---------------------------
(***************************************************************************)
(* The registry's invariants, for any number of connections, nicknames and *)
(* channels.  Their conjunction is inductive: the gate needs no more than  *)
(* itself, while NickListExact needs CurrentNickResolves (two users with   *)
(* one nickname would make the erase in SetNickname free a nickname still  *)
(* in use), which in turn needs NickListExact (a nickname that is refused  *)
(* when it is in nick_list_ is one nobody has).                            *)
(***************************************************************************)
EXTENDS Everyone, TLAPS

RegistryInv ==
    /\ EveryoneTypeOK
    /\ RegistrationGate
    /\ NickLevelMeansNick
    /\ NickListExact
    /\ CurrentNickResolves

\* The part of the invariant about nicknames, which SetNickname and SKIP
\* change in the same way.
NickInv ==
    /\ nick_name \in [Fds -> Nicks \cup {None}]
    /\ everyone_nickname \in [Nicks -> Fds \cup {None, Dangling}]
    /\ nick_list \subseteq Nicks
    /\ NickListExact
    /\ CurrentNickResolves

\* The empty registry satisfies the invariant.
LEMMA InitRegistry == EveryoneInit => RegistryInv
  BY EveryoneConstants
  DEF EveryoneInit, RegistryInv, EveryoneTypeOK, RegistrationGate, NickLevelMeansNick,
      NickListExact, CurrentNickResolves, Levels, IsRegister

\* Taking a nickname nobody has keeps both indexes exact.
LEMMA TakeNickKeepsIndexes ==
    ASSUME NickInv, NEW fd \in Fds, NEW n \in Nicks, n \notin nick_list, TakeNick(fd, n)
    PROVE  NickInv'
<1>1. /\ nick_name' \in [Fds -> Nicks \cup {None}]
      /\ everyone_nickname' \in [Nicks -> Fds \cup {None, Dangling}]
      /\ nick_list' \subseteq Nicks
  BY DEF NickInv, TakeNick
<1>2. \A g \in Fds : nick_name[g] # n
  BY EveryoneConstants DEF NickInv, NickListExact
<1>3. \A g \in Fds : nick_name'[g] = IF g = fd THEN n ELSE nick_name[g]
  BY DEF NickInv, TakeNick
<1>4. \A m \in Nicks : everyone_nickname'[m] = IF m = n THEN fd ELSE everyone_nickname[m]
  BY DEF NickInv, TakeNick
<1>5. CurrentNickResolves'
  <2> SUFFICES ASSUME NEW g \in Fds, nick_name'[g] # None
               PROVE  everyone_nickname'[nick_name'[g]] = g
    BY DEF CurrentNickResolves
  <2>1. CASE g = fd
    BY <2>1, <1>3, <1>4
  <2>2. CASE g # fd
    BY <2>2, <1>2, <1>3, <1>4 DEF NickInv, CurrentNickResolves
  <2> QED BY <2>1, <2>2
<1>6. NickListExact'
  <2>1. ASSUME NEW m \in nick_list' PROVE \E g \in Fds : m = nick_name'[g] /\ m # None
    <3>1. CASE m = n
      BY <3>1, <1>3, EveryoneConstants
    <3>2. CASE m # n
      <4>1. m \in nick_list /\ m # nick_name[fd]
        BY <3>2 DEF TakeNick
      <4>2. PICK g \in Fds : m = nick_name[g] /\ m # None
        BY <4>1 DEF NickInv, NickListExact
      <4> QED BY <4>1, <4>2, <1>3
    <3> QED BY <3>1, <3>2
  <2>2. ASSUME NEW g \in Fds, nick_name'[g] # None PROVE nick_name'[g] \in nick_list'
    <3>1. CASE g = fd
      BY <3>1, <1>3 DEF TakeNick
    <3>2. CASE g # fd
      <4>1. nick_name[g] \in nick_list /\ nick_name'[g] = nick_name[g] /\ nick_name[g] # None
        BY <3>2, <2>2, <1>3 DEF NickInv, NickListExact
      <4>2. nick_name[g] # nick_name[fd]
        BY <4>1, <3>2 DEF NickInv, CurrentNickResolves
      <4> QED BY <4>1, <4>2 DEF TakeNick
    <3> QED BY <3>1, <3>2
  <2> QED BY <2>1, <2>2 DEF NickListExact
<1> QED BY <1>1, <1>5, <1>6 DEF NickInv

\* A nickname is only taken when nobody has it, it is well formed, and a USER
\* that came first came with the password.
LEMMA TakenWhenFree ==
    ASSUME NEW lev, NEW n \in Nicks, NickTaken(NickAnswer(lev, n))
    PROVE  n \notin nick_list /\ ("USER" \in lev => "REGISTER" \in lev)
<1>1. CASE ~is_nick(n)
  BY <1>1 DEF NickTaken, NickAnswer
<1>2. CASE is_nick(n) /\ n \in nick_list
  BY <1>2 DEF NickTaken, NickAnswer
<1>3. CASE is_nick(n) /\ n \notin nick_list
  BY <1>3 DEF NickTaken, NickAnswer
<1> QED BY <1>1, <1>2, <1>3

\* Deleting a user frees its nickname and leaves nothing behind.
LEMMA DeleteKeepsRegistry ==
    ASSUME RegistryInv, NEW fd \in Fds, DeleteUser(fd)
    PROVE  RegistryInv'
<1> USE EveryoneConstants
<1>1. EveryoneTypeOK'
  BY DEF RegistryInv, EveryoneTypeOK, DeleteUser, IndexAfterDelete, Levels
<1>2. \A g \in Fds : /\ nick_name'[g] = IF g = fd THEN None ELSE nick_name[g]
                     /\ level'[g] = IF g = fd THEN {} ELSE level[g]
  BY DEF RegistryInv, EveryoneTypeOK, DeleteUser
<1>3. RegistrationGate' /\ NickLevelMeansNick'
  BY <1>2 DEF RegistryInv, RegistrationGate, NickLevelMeansNick, IsRegister
<1>4. CurrentNickResolves'
  <2> SUFFICES ASSUME NEW g \in Fds, nick_name'[g] # None
               PROVE  everyone_nickname'[nick_name'[g]] = g
    BY DEF CurrentNickResolves
  <2>1. g # fd /\ nick_name'[g] = nick_name[g] /\ nick_name[g] \in Nicks
    BY <1>2 DEF RegistryInv, EveryoneTypeOK
  <2>2. everyone_nickname[nick_name[g]] = g
    BY <2>1 DEF RegistryInv, CurrentNickResolves
  <2>3. nick_name[g] # nick_name[fd]
    BY <2>1, <2>2 DEF RegistryInv, CurrentNickResolves
  <2> QED BY <2>1, <2>2, <2>3 DEF DeleteUser, IndexAfterDelete
<1>5. NickListExact'
  <2>1. ASSUME NEW g \in Fds, g # fd, nick_name[g] # None
        PROVE  nick_name[g] # nick_name[fd]
    BY <2>1 DEF RegistryInv, CurrentNickResolves
  <2> QED
    BY <1>2, <2>1 DEF RegistryInv, NickListExact, DeleteUser
<1> QED BY <1>1, <1>3, <1>4, <1>5 DEF RegistryInv

\* A line of a client (PASS, NICK, USER, SKIP, anything else) keeps the invariant.
LEMMA LineKeepsRegistry ==
    ASSUME RegistryInv, NEW fd \in Fds, UserLine(fd)
    PROVE  RegistryInv'
<1> USE EveryoneConstants
<1>1. everyone_id' = everyone_id \cup {fd} /\ is_admin' \subseteq everyone_id'
  BY DEF UserLine, CreateUser, RegistryInv, EveryoneTypeOK
<1>2. ASSUME NickInv', level' \in [Fds -> SUBSET Levels],
             \A g \in Fds \ {fd} : level'[g] = level[g] /\ nick_name'[g] = nick_name[g],
             UNCHANGED join_channel,
             nick_name'[fd] # None <=> "NICK" \in level'[fd],
             {"NICK", "USER"} \subseteq level'[fd] => "REGISTER" \in level'[fd]
      PROVE  RegistryInv'
  <2>1. EveryoneTypeOK'
    BY <1>1, <1>2 DEF RegistryInv, EveryoneTypeOK, NickInv
  <2>2. RegistrationGate' /\ NickLevelMeansNick'
    BY <1>2 DEF RegistryInv, RegistrationGate, NickLevelMeansNick, IsRegister
  <2> QED BY <1>2, <2>1, <2>2 DEF RegistryInv, NickInv
<1>3. NickInv
  BY DEF RegistryInv, NickInv, EveryoneTypeOK
<1>4. level \in [Fds -> SUBSET Levels] /\ nick_name \in [Fds -> Nicks \cup {None}]
  BY DEF RegistryInv, EveryoneTypeOK
<1>5. /\ nick_name[fd] # None <=> "NICK" \in level[fd]
      /\ {"NICK", "USER"} \subseteq level[fd] => "REGISTER" \in level[fd]
  BY DEF RegistryInv, NickLevelMeansNick, RegistrationGate, IsRegister
<1>6. ASSUME UNCHANGED <<nick_name, everyone_nickname, nick_list>> PROVE NickInv'
  BY <1>3, <1>6 DEF NickInv, NickListExact, CurrentNickResolves
<1>7. CASE SetRegister(fd)
  BY <1>2, <1>4, <1>5, <1>6, <1>7 DEF SetRegister, Levels
<1>8. CASE \E n \in Nicks : SetNickname(fd, n)
  <2> PICK n \in Nicks : SetNickname(fd, n)
    BY <1>8
  <2>1. CASE NickTaken(NickAnswer(level[fd], n))
    <3>1. TakeNick(fd, n) /\ level' = [level EXCEPT ![fd] = @ \cup {"NICK"}]
      BY <2>1 DEF SetNickname
    <3>2. n \notin nick_list /\ ("USER" \in level[fd] => "REGISTER" \in level[fd])
      BY <2>1, TakenWhenFree
    <3>3. NickInv'
      BY <1>3, <3>1, <3>2, TakeNickKeepsIndexes
    <3> QED BY <1>2, <1>4, <1>5, <3>1, <3>2, <3>3 DEF SetNickname, TakeNick, Levels
  <2>2. CASE ~NickTaken(NickAnswer(level[fd], n))
    BY <2>2, <1>2, <1>4, <1>5, <1>6 DEF SetNickname
  <2> QED BY <2>1, <2>2
<1>9. CASE SetUser(fd)
  <2>1. CASE UserAnswer(level[fd]) = "Denied"
    BY <2>1, <1>2, <1>4, <1>5, <1>6, <1>9 DEF SetUser
  <2>2. CASE UserAnswer(level[fd]) # "Denied"
    <3>1. "NICK" \in level[fd] => "REGISTER" \in level[fd]
      BY <2>2 DEF UserAnswer
    <3> QED BY <2>2, <3>1, <1>2, <1>4, <1>5, <1>6, <1>9 DEF SetUser, Levels
  <2> QED BY <2>1, <2>2
<1>10. CASE \E n \in Nicks \ BadNicks : RegisterAtOnce(fd, n)
  <2> PICK n \in Nicks \ BadNicks : RegisterAtOnce(fd, n)
    BY <1>10
  <2> DEFINE took == NickTaken(NickAnswer(level[fd] \cup {"REGISTER"}, n))
  <2>1. level' = [level EXCEPT ![fd] = level[fd] \cup {"REGISTER"} \cup {"USER"}
                                        \cup (IF took THEN {"NICK"} ELSE {})]
    BY DEF RegisterAtOnce
  <2>2. UNCHANGED join_channel
    BY DEF RegisterAtOnce
  <2>3. CASE took
    <3>1. TakeNick(fd, n)
      BY <2>3 DEF RegisterAtOnce
    <3>2. n \notin nick_list
      BY <2>3, TakenWhenFree
    <3>3. NickInv'
      BY <1>3, <3>1, <3>2, TakeNickKeepsIndexes
    <3> HIDE DEF took
    <3> QED BY <1>2, <1>4, <1>5, <2>1, <2>2, <2>3, <3>1, <3>3 DEF TakeNick, Levels
  <2>4. CASE ~took
    <3>1. UNCHANGED <<nick_name, everyone_nickname, nick_list>>
      BY <2>4 DEF RegisterAtOnce
    <3> HIDE DEF took
    <3> QED BY <1>2, <1>4, <1>5, <1>6, <2>1, <2>2, <2>4, <3>1 DEF Levels
  <2> QED BY <2>3, <2>4
<1>11. CASE UNCHANGED <<level, nick_name, join_channel, everyone_nickname, nick_list>>
  BY <1>2, <1>4, <1>5, <1>6, <1>11
<1> QED BY <1>7, <1>8, <1>9, <1>10, <1>11 DEF UserLine

\* Every step of the registry keeps the invariant.
LEMMA NextKeepsRegistry == RegistryInv /\ [EveryoneNext]_everyoneVars => RegistryInv'
<1> SUFFICES ASSUME RegistryInv, [EveryoneNext]_everyoneVars PROVE RegistryInv'
  OBVIOUS
<1>1. CASE UNCHANGED everyoneVars
  BY <1>1 DEF everyoneVars, RegistryInv, EveryoneTypeOK, RegistrationGate,
              NickLevelMeansNick, NickListExact, CurrentNickResolves, IsRegister
<1>2. ASSUME NEW fd \in Fds, UserLine(fd) PROVE RegistryInv'
  BY <1>2, LineKeepsRegistry
<1>3. ASSUME NEW fd \in Fds, DeleteUser(fd) PROVE RegistryInv'
  BY <1>3, DeleteKeepsRegistry
<1>4. ASSUME NEW fd \in Fds, IsCreated(fd), NEW c \in Chans,
             AddJoinChannel(fd, c) \/ DeleteJoinChannel(fd, c)
      PROVE  RegistryInv'
  <2>1. EveryoneTypeOK'
    BY <1>4 DEF RegistryInv, EveryoneTypeOK, AddJoinChannel, DeleteJoinChannel, IsCreated
  <2> QED
    BY <1>4, <2>1 DEF RegistryInv, RegistrationGate, NickLevelMeansNick, NickListExact,
                      CurrentNickResolves, IsRegister, AddJoinChannel, DeleteJoinChannel
<1> QED BY <1>1, <1>2, <1>3, <1>4 DEF EveryoneNext

\* The registry satisfies all of its invariants, whatever order its methods
\* are called in, for any set of connections and nicknames.
THEOREM RegistryCorrect == EveryoneSpec => []RegistryInv
  BY InitRegistry, NextKeepsRegistry, PTL DEF EveryoneSpec

-----------------------------------------------------------------------------
(* Pointers into the records *)

\* An entry that points to a record points to one that is there: DeleteUser
\* leaves no other kind behind than the dangling ones.
EntriesAreLive ==
    \A n \in Nicks : everyone_nickname[n] \in Fds => IsCreated(everyone_nickname[n])

LEMMA LineKeepsEntries ==
    ASSUME RegistryInv, EntriesAreLive, NEW fd \in Fds, UserLine(fd)
    PROVE  EntriesAreLive'
<1>1. everyone_id' = everyone_id \cup {fd}
  BY DEF UserLine, CreateUser
<1>2. CASE UNCHANGED everyone_nickname
  BY <1>1, <1>2 DEF EntriesAreLive, IsCreated
<1>3. ASSUME NEW n \in Nicks, TakeNick(fd, n) PROVE EntriesAreLive'
  <2>1. \A m \in Nicks : everyone_nickname'[m] = IF m = n THEN fd ELSE everyone_nickname[m]
    BY <1>3 DEF TakeNick, RegistryInv, EveryoneTypeOK
  <2> QED BY <1>1, <2>1 DEF EntriesAreLive, IsCreated
<1> QED BY <1>2, <1>3 DEF UserLine, SetRegister, SetNickname, SetUser, RegisterAtOnce

LEMMA NextKeepsEntries ==
    RegistryInv /\ EntriesAreLive /\ [EveryoneNext]_everyoneVars => EntriesAreLive'
<1> SUFFICES ASSUME RegistryInv, EntriesAreLive, [EveryoneNext]_everyoneVars
             PROVE  EntriesAreLive'
  OBVIOUS
<1>1. CASE UNCHANGED everyoneVars
  BY <1>1 DEF everyoneVars, EntriesAreLive, IsCreated
<1>2. ASSUME NEW fd \in Fds, DeleteUser(fd) PROVE EntriesAreLive'
  <2>1. \A n \in Nicks : everyone_nickname'[n] \in Fds =>
            everyone_nickname'[n] = everyone_nickname[n] /\ everyone_nickname[n] # fd
    BY <1>2, EveryoneConstants DEF DeleteUser, IndexAfterDelete
  <2> QED BY <1>2, <2>1 DEF EntriesAreLive, IsCreated, DeleteUser
<1>3. ASSUME NEW fd \in Fds, NEW c \in Chans, AddJoinChannel(fd, c) \/ DeleteJoinChannel(fd, c)
      PROVE  EntriesAreLive'
  BY <1>3 DEF AddJoinChannel, DeleteJoinChannel, EntriesAreLive, IsCreated
<1> QED BY <1>1, <1>2, <1>3, LineKeepsEntries DEF EveryoneNext

\* A pointer of the nickname index that is not dangling leads to a record:
\* a connection without a record is under no nickname at all.
THEOREM PointersAreLive == EveryoneSpec => []EntriesAreLive
<1>1. EveryoneInit => EntriesAreLive
  BY EveryoneConstants DEF EveryoneInit, EntriesAreLive
<1> QED BY <1>1, RegistryCorrect, NextKeepsEntries, PTL DEF EveryoneSpec

-----------------------------------------------------------------------------
\* Nobody is registered without the password.
THEOREM GateHolds == EveryoneSpec => []RegistrationGate
<1>1. RegistryInv => RegistrationGate
  BY DEF RegistryInv
<1> QED BY <1>1, RegistryCorrect, PTL

\* The nickname a user has always leads back to that user.
THEOREM NicksResolve == EveryoneSpec => []CurrentNickResolves
<1>1. RegistryInv => CurrentNickResolves
  BY DEF RegistryInv
<1> QED BY <1>1, RegistryCorrect, PTL

\* Every field keeps its type, and a free descriptor nothing of its last owner.
THEOREM RecordsTyped == EveryoneSpec => []EveryoneTypeOK
<1>1. RegistryInv => EveryoneTypeOK
  BY DEF RegistryInv
<1> QED BY <1>1, RegistryCorrect, PTL

\* No nickname leaks: exactly those that somebody has are in use.
THEOREM NickListIsExact == EveryoneSpec => []NickListExact
<1>1. RegistryInv => NickListExact
  BY DEF RegistryInv
<1> QED BY <1>1, RegistryCorrect, PTL

\* nick_name.back() is never called on an empty vector.
THEOREM NickLevelsMatch == EveryoneSpec => []NickLevelMeansNick
<1>1. RegistryInv => NickLevelMeansNick
  BY DEF RegistryInv
<1> QED BY <1>1, RegistryCorrect, PTL

=============================================================================
