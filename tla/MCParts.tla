------------------------------ MODULE MCParts ------------------------------
(* Small instances of the parts that a thread runs by itself, or behind a     *)
(* server that another module has: the first state chooses one of them, and   *)
(* the others stay as they were made.                                         *)
EXTENDS CmsServerTasks, Recovery, LruCache, WebSocket

CONSTANTS m1, m2, k1, k2, k3,
    Chosen,         \* the parts of the instance
    HttpStreams     \* what clients send to the parser

VARIABLES
    part,
    stream, read, p,
    document, value, outcome,
    path, data, globals, load, loads

parserVars == <<stream, read, p>>
schemaVars == <<document, value, outcome>>
configVars == <<path, data, globals, load, loads>>
vars == <<part, taskVars, parserVars, socketVars, recoveryVars, cacheVars, schemaVars, configVars>>

Sent == INSTANCE MCHttpMessages
Given == INSTANCE MCDocuments
Written == INSTANCE MCSources

Parser == INSTANCE HttpRequestParser WITH
    Streams <- HttpStreams, Methods <- Sent!Methods, NoRequest <- Sent!NoRequest,
    MaxMethod <- 4, MaxValue <- 3, MaxChunk <- 16,
    UriRoom <- 3, VersionRoom <- 2, NameRoom <- 4, IntMax <- 16

MCStreams == Sent!MCStreams
MCStaleStreams == Sent!MCStaleStreams

MCConversations == Sent!MCConversations
MCReads == {1, 2, 3, 5, 9, 20}
MCUtf8 == [c \in {"0", "1", "[", "]"} |->
              CASE c = "0" -> 0 [] c = "1" -> 1 [] c = "[" -> 2 [] OTHER -> 3]

MCFlags == {{}, {"RETRY"}, {"RETRY", "DELETE_ON_RETRY"}, {"RETRY", "DISABLE"}}

\* Two places: digests collide.
CachePlace(digest) == digest % 2
MCSizes == 0..3
MCDigests == 11..14

Schema == INSTANCE JsonSchema WITH
    Documents <- Given!MCSchemas, Values <- Given!MCValues,
    Code <- Given!MCCode, HashRange <- Given!MCHashRange

Config == INSTANCE Configuration WITH
    Paths <- Written!MCPaths, Edits <- Written!MCEdits,
    Policies <- {"concatenate", "in place", "base", "overrides"}, MaxLoads <- 2

Init ==
    /\ part \in Chosen
    /\ TasksInit
    /\ IF part = "parser" THEN Parser!Init
       ELSE stream = <<>> /\ read = 0 /\ p = Parser!NewParser
    /\ IF part = "socket" THEN SocketInit ELSE SocketInitWith(<<>>)
    /\ RecoveryInit
    /\ IF part = "cache" THEN CacheInit ELSE CacheInitWith(0)
    /\ IF part = "schema" THEN Schema!Init ELSE Schema!InitWith(<<>>, <<>>)
    /\ IF part = "configuration" THEN Config!Init ELSE Config!InitWith(<<>>)

Next ==
    /\ UNCHANGED part
    /\ \/ /\ part = "tasks" /\ TasksNext
          /\ UNCHANGED <<parserVars, socketVars, recoveryVars, cacheVars, schemaVars, configVars>>
       \/ /\ part = "parser" /\ Parser!Next
          /\ UNCHANGED <<taskVars, socketVars, recoveryVars, cacheVars, schemaVars, configVars>>
       \/ /\ part = "socket" /\ SocketNext
          /\ UNCHANGED <<taskVars, parserVars, recoveryVars, cacheVars, schemaVars, configVars>>
       \/ /\ part = "recovery" /\ RecoveryNext
          /\ UNCHANGED <<taskVars, parserVars, socketVars, cacheVars, schemaVars, configVars>>
       \/ /\ part = "cache" /\ CacheNext
          /\ UNCHANGED <<taskVars, parserVars, socketVars, recoveryVars, schemaVars, configVars>>
       \/ /\ part = "schema" /\ Schema!Next
          /\ UNCHANGED <<taskVars, parserVars, socketVars, recoveryVars, cacheVars, configVars>>
       \/ /\ part = "configuration" /\ Config!Next
          /\ UNCHANGED <<taskVars, parserVars, socketVars, recoveryVars, cacheVars, schemaVars>>

\* A part that was not chosen never has a step that could be taken.
Spec == Init /\ [][Next]_vars /\ TasksFairness

\* The properties of the parts made by INSTANCE, under their own names.
RequestsAsSent == part = "parser" => Parser!RequestsAsSent
MalformedRefused == part = "parser" => Parser!MalformedRefused
MethodsDefined == part = "parser" => Parser!MethodsDefined
VerdictAsMeant == part = "schema" => Schema!VerdictAsMeant
LoadedAsMeant == part = "configuration" => Config!LoadedAsMeant
=============================================================================
