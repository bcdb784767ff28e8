------------------------------ MODULE Services ------------------------------
(***************************************************************************)
(* The sockets and what is built on them: the socket objects, the streams  *)
(* over them and their TLS sessions, the HTTP server and client, chunked   *)
(* bodies, the SMTP client, and the streams of the crypto library.  They   *)
(* have no state in common; part says which a behaviour exercises.  The    *)
(* part "call" is one call of a sequential algorithm of the libraries, on *)
(* an input chosen initially.                                              *)
(***************************************************************************)
EXTENDS Addresses, MessagePack, Json, WireMessages, FilterStreams, Sockets, Http, Clients

CONSTANT Parts    \* bound: the parts examined

VARIABLE part

vars == <<part, probeVars, sockVars, streamVars, tlsVars, httpVars, clientVars, chunkVars, smtpVars, cryptoVars>>

CallInit ==
    \/ AddressInit \/ VariantInit \/ ValueInit \/ PackInit \/ JsonInit \/ ViewsInit \/ ZInit
    \/ DnsInit \/ DhcpInit \/ HttpMessageInit

CallNext ==
    \/ AddressNext \/ VariantNext \/ ValueNext \/ PackNext \/ JsonNext \/ ViewsNext \/ ZNext
    \/ DnsNext \/ DhcpNext \/ HttpMessageNext

Init ==
    /\ part \in Parts
    /\ SockInit /\ (part = "sockets" \/ sockKind = "stream")
    /\ TlsInit /\ (part = "tls" \/ (~verify /\ peerChain = <<CHOOSE c \in Certs : TRUE>>))
    /\ CryptoInit /\ (part = "crypto" \/ codec = "encode")
    /\ StreamInit /\ HttpInit /\ ClientInit /\ ChunkInit /\ SmtpInit
    /\ \/ part = "call" /\ CallInit
       \/ part # "call" /\ kind = "none" /\ input = <<>> /\ output = <<>>

InSockets(A) ==
    /\ part = "sockets" /\ A
    /\ UNCHANGED <<part, probeVars, streamVars, tlsVars, httpVars, clientVars, chunkVars, smtpVars, cryptoVars>>
InStream(A) ==
    /\ part = "stream" /\ A
    /\ UNCHANGED <<part, probeVars, sockVars, tlsVars, httpVars, clientVars, chunkVars, smtpVars, cryptoVars>>
InTls(A) ==
    /\ part = "tls" /\ A
    /\ UNCHANGED <<part, probeVars, sockVars, streamVars, httpVars, clientVars, chunkVars, smtpVars, cryptoVars>>
InServer(A) ==
    /\ part = "server" /\ A
    /\ UNCHANGED <<part, probeVars, sockVars, streamVars, tlsVars, clientVars, chunkVars, smtpVars, cryptoVars>>
InClient(A) ==
    /\ part = "client" /\ A
    /\ UNCHANGED <<part, probeVars, sockVars, streamVars, tlsVars, httpVars, chunkVars, smtpVars, cryptoVars>>
InChunks(A) ==
    /\ part = "chunks" /\ A
    /\ UNCHANGED <<part, probeVars, sockVars, streamVars, tlsVars, httpVars, clientVars, smtpVars, cryptoVars>>
InSmtp(A) ==
    /\ part = "smtp" /\ A
    /\ UNCHANGED <<part, probeVars, sockVars, streamVars, tlsVars, httpVars, clientVars, chunkVars, cryptoVars>>
InCrypto(A) ==
    /\ part = "crypto" /\ A
    /\ UNCHANGED <<part, probeVars, sockVars, streamVars, tlsVars, httpVars, clientVars, chunkVars, smtpVars>>
InCall(A) ==
    /\ part = "call" /\ A
    /\ UNCHANGED <<part, sockVars, streamVars, tlsVars, httpVars, clientVars, chunkVars, smtpVars, cryptoVars>>

Next ==
    \/ InSockets(SockNext) \/ InStream(StreamNext) \/ InTls(TlsNext)
    \/ InServer(HttpNext) \/ InClient(ClientNext) \/ InChunks(ChunkNext)
    \/ InSmtp(SmtpNext) \/ InCrypto(CryptoNext) \/ InCall(CallNext)

Spec == Init /\ [][Next]_vars

----------------------------------------------------------------------------
(***************************************************************************)
(* The streams: characters arrive as they were put, in order and once, in  *)
(* however many parts they are written and read, with the losses the parts *)
(* name and no other.                                                      *)
(***************************************************************************)
StreamsCarry ==
    /\ WrittenAsPut /\ ReadAsSent
    /\ BodyReadBack /\ DestroyedIsEnded
    /\ ResultOfText /\ BreaksLoseAtFlush /\ RefusedForEver
    /\ ReadBackUnlessCut

(***************************************************************************)
(* Addresses against their definitions: prefixes and masks are inverse,    *)
(* the classes are the ranges of the standards, < is an order, a hardware  *)
(* address counts as a number, an endpoint gives back what it was given.   *)
(***************************************************************************)
AddressesRight == PrefixInverse /\ AddressOrder /\ ClassesAreRanges /\ MacArithmetic /\ EndpointReadsBack

(***************************************************************************)
(* Documents against their definitions: JSON accepts its grammar, numbers  *)
(* and characters survive, MessagePack reads back what it wrote and takes  *)
(* a cut document only where stated, the views read alike, values convert  *)
(* and compare as numbers do.                                              *)
(***************************************************************************)
DocumentsReadBack ==
    /\ JsonIsGrammar /\ NumberTextExact /\ FastExactRange /\ CharactersSurvive
    /\ PackRoundTrip /\ CutsCharacterised
    /\ SkipsBlanks /\ ViewsAlike
    /\ ConversionsExact /\ NumbersCompare /\ MembersLookedUp

(***************************************************************************)
(* DNS, DHCP and HTTP messages: what was written is read back, names       *)
(* expand as their pointers say, and a message that is cut is refused or   *)
(* gives a part of itself, never something else.                           *)
(***************************************************************************)
MessagesReadBack ==
    /\ NamesExpand /\ PacketsReadBack /\ CutsKeepPrefix
    /\ OptionsReadBack /\ HeardFirstLegal /\ CutsNeverAlter /\ FramesChecked
    /\ PathsWalked /\ RequestsReadBack /\ HeadersReadBack

(***************************************************************************)
(* Variant: every object is constructed and destroyed once, a variant      *)
(* holds what it was given last, through copies that throw, and < is an    *)
(* order.                                                                  *)
(***************************************************************************)
VariantsSound == VariantsHoldLastGiven /\ VariantOrder
=============================================================================
