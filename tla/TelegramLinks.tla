--------------------------- MODULE TelegramLinks ---------------------------
(***************************************************************************)
(* Which chat hears about which wallet: the bot's webhook binds a chat to  *)
(* the wallet of a link code (server/telegramStore.ts, POST                *)
(* /api/telegram/webhook), and the worker writes what Telegram answers to  *)
(* its messages and probes on the row of the chat (scripts/watch-worker.ts *)
(* recordDelivery, checkTelegram).  Every request to the database is a     *)
(* step of its own.                                                        *)
(***************************************************************************)
EXTENDS Integers, FiniteSets

CONSTANTS
  Wallet, Chat,
  Code,    \* link codes, each minted at most once
  Hook,    \* webhook calls under way at once
  Stamp,   \* messages and probes under way at once
  Nobody   \* no wallet, no chat, no code

VARIABLES
  code,     \* telegram_link_codes: code[k] = [wallet, state]
  link,     \* telegram_links: link[w] = [chat, enabled, blocked (unreachable_since)],
            \* chat Nobody for no row
  blocks,   \* chats whose user has blocked the bot
  hook,     \* hook[h]: the /start h is handling
  stamp,    \* stamp[s]: Telegram's answer that s is about to record
  quiet     \* history: chats that said /stop and nothing since

vars == <<code, link, blocks, hook, stamp, quiet>>

NoCode == [wallet |-> Nobody, state |-> "none"]
NoLink == [chat |-> Nobody, enabled |-> FALSE, blocked |-> FALSE]
NoHook == [at |-> "idle", chat |-> Nobody, code |-> Nobody, wallet |-> Nobody]
NoStamp == [chat |-> Nobody, ok |-> FALSE]

RowsOf(c) == {w \in Wallet : link[w].chat = c}

----------------------------------------------------------------------------
(* Link codes.                                                             *)

CreateLinkCode(k, w) ==
  /\ code[k].state = "none"
  /\ code' = [code EXCEPT ![k] = [wallet |-> w, state |-> "live"]]
  /\ UNCHANGED <<link, blocks, hook, stamp, quiet>>

LetLapse(k) ==
  /\ code[k].state = "live"
  /\ code' = [code EXCEPT ![k].state = "lapsed"]
  /\ UNCHANGED <<link, blocks, hook, stamp, quiet>>

Gone(k) == [code EXCEPT ![k] = [wallet |-> Nobody, state |-> "used"]]

----------------------------------------------------------------------------
(* The webhook: /start <code>.                                             *)

(* getLinkCode: a code that lapsed is swept, by a request nobody checks;   *)
(* one that does not exist changes nothing.                                *)
Start(h, c, k) ==
  /\ hook[h].at = "idle"
  /\ quiet' = quiet \ {c}
  /\ \/ /\ code[k].state = "live"
        /\ hook' = [hook EXCEPT ![h] =
             [at |-> "found", chat |-> c, code |-> k, wallet |-> code[k].wallet]]
        /\ UNCHANGED code
     \/ /\ code[k].state = "lapsed"
        /\ code' = Gone(k)
        /\ UNCHANGED hook
  /\ UNCHANGED <<link, blocks, stamp>>

(* upsertLink, first write: drop the chat's old row.  The answer is not    *)
(* looked at, so a refused request is passed over.                         *)
DropOld(h) ==
  /\ hook[h].at = "found"
  /\ hook' = [hook EXCEPT ![h].at = "dropped"]
  /\ \/ link' = [w \in Wallet |-> IF w \in RowsOf(hook[h].chat) THEN NoLink ELSE link[w]]
     \/ UNCHANGED link
  /\ UNCHANGED <<code, blocks, stamp, quiet>>

(* upsertLink, second write: the wallet's row is inserted, or merged into  *)
(* the one it has.  It names the chat and `enabled`; the evidence on a row *)
(* that exists stays.  chat_id is unique, so while the chat has another    *)
(* wallet's row the request is refused, and the handler gives up.          *)
Bind(h) ==
  /\ hook[h].at = "dropped"
  /\ LET w == hook[h].wallet
         c == hook[h].chat
     IN  \/ /\ RowsOf(c) \subseteq {w}
            /\ link' = [link EXCEPT ![w] = [@ EXCEPT !.chat = c, !.enabled = TRUE]]
            /\ hook' = [hook EXCEPT ![h].at = "bound"]
         \/ hook' = [hook EXCEPT ![h] = NoHook] /\ UNCHANGED link
  /\ UNCHANGED <<code, blocks, stamp, quiet>>

(* consumeLinkCode, by a request nobody checks.                            *)
ConsumeLinkCode(h) ==
  /\ hook[h].at = "bound"
  /\ hook' = [hook EXCEPT ![h] = NoHook]
  /\ code' \in {Gone(hook[h].code), code}
  /\ UNCHANGED <<link, blocks, stamp, quiet>>

(* /stop: disableLink.  Nobody looks at the answer: a request that is      *)
(* refused changes nothing, and the chat is told that alerts are disabled. *)
(* The history tells the chats that have nothing else under way.           *)
Stop(c) ==
  /\ link' = [w \in Wallet |-> IF w \in RowsOf(c) THEN [link[w] EXCEPT !.enabled = FALSE] ELSE link[w]]
  /\ quiet' = IF \E h \in Hook : hook[h].chat = c THEN quiet ELSE quiet \union {c}
  /\ UNCHANGED <<code, blocks, hook, stamp>>

----------------------------------------------------------------------------
(* The worker's messages and probes.                                       *)

(* A message to a wallet whose link is enabled, or a probe of a link that  *)
(* is enabled and not known to be blocked, and Telegram's answer: ok or    *)
(* 403.  (Another error leaves these columns as they are.)                 *)
Send(s, w) ==
  /\ stamp[s] = NoStamp
  /\ link[w].chat # Nobody /\ link[w].enabled
  /\ LET c == link[w].chat
     IN  stamp' = [stamp EXCEPT ![s] = [chat |-> c, ok |-> c \notin blocks]]
  /\ UNCHANGED <<code, link, blocks, hook, quiet>>

(* Mutant of Stamped: a delivery that went through switches alerts on.     *)
StampedOn(row, ok) ==
  [row EXCEPT !.enabled = ok, !.blocked = ~ok]

Stamped(row, ok) ==
  IF ok THEN [row EXCEPT !.blocked = FALSE]
        ELSE [row EXCEPT !.blocked = TRUE, !.enabled = FALSE]

(* The update of the row the chat has by now; it may fail, and is logged.  *)
Record(s) ==
  /\ stamp[s] # NoStamp
  /\ stamp' = [stamp EXCEPT ![s] = NoStamp]
  /\ \/ link' = [w \in Wallet |->
          IF w \in RowsOf(stamp[s].chat) THEN Stamped(link[w], stamp[s].ok) ELSE link[w]]
     \/ UNCHANGED link
  /\ UNCHANGED <<code, blocks, hook, quiet>>

(* The user blocks or unblocks the bot.                                    *)
Block(c) ==
  /\ blocks' = IF c \in blocks THEN blocks \ {c} ELSE blocks \union {c}
  /\ UNCHANGED <<code, link, hook, stamp, quiet>>

Init ==
  /\ code = [k \in Code |-> NoCode]
  /\ link = [w \in Wallet |-> NoLink]
  /\ blocks = {}
  /\ hook = [h \in Hook |-> NoHook]
  /\ stamp = [s \in Stamp |-> NoStamp]
  /\ quiet = {}

Next ==
  \/ \E k \in Code : LetLapse(k) \/ \E w \in Wallet : CreateLinkCode(k, w)
  \/ \E h \in Hook : \/ DropOld(h) \/ Bind(h) \/ ConsumeLinkCode(h)
                     \/ \E c \in Chat, k \in Code : Start(h, c, k)
  \/ \E c \in Chat : Stop(c) \/ Block(c)
  \/ \E s \in Stamp : Record(s) \/ \E w \in Wallet : Send(s, w)

----------------------------------------------------------------------------
TypeOK ==
  /\ code \in [Code -> [wallet : Wallet \union {Nobody}, state : {"none", "live", "lapsed", "used"}]]
  /\ link \in [Wallet -> [chat : Chat \union {Nobody}, enabled : BOOLEAN, blocked : BOOLEAN]]
  /\ \A c \in Chat : Cardinality(RowsOf(c)) <= 1
  /\ blocks \subseteq Chat /\ quiet \subseteq Chat
  /\ \A h \in Hook : hook[h].at \in {"idle", "found", "dropped", "bound"}
  /\ \A s \in Stamp : stamp[s].chat \in Chat \union {Nobody}

(* A /stop that was written is final until the chat says /start again: no  *)
(* answer of Telegram that was on its way, to a message or a probe, and no *)
(* write for another link switches the alerts of that chat on again        *)
(* (disableLink, recordDelivery).                                          *)
StopSticks == \A c \in quiet : \A w \in RowsOf(c) : ~link[w].enabled
============================================================================
