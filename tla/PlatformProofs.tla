---------------------------- MODULE PlatformProofs ----------------------------
(***************************************************************************)
(* What is proved of each component around the order service holds where   *)
(* MCPlatform puts them side by side: a behavior of the platform is, seen  *)
(* from any one of them, a behavior of that one.                           *)
(***************************************************************************)
EXTENDS MCPlatform, HostingProofs, PlazaProofs, AccountsProofs, MessagesProofs

LEMMA PlatformBegins ==
  PlatformInit => HostInit /\ PlazaInit /\ FeedInit /\ AccountsInit /\ UploadInit /\ MsgInit
  BY DEF PlatformInit

\* A step of the platform is one of a component, and the others stand still.
LEMMA PlatformSteps ==
  ASSUME [PlatformNext]_<<hostVars, plazaVars, feedVars, accountsVars, uploadVars, msgVars>>
  PROVE  /\ [HostNext]_hostVars /\ [PlazaNext]_plazaVars /\ [FeedNext]_feedVars
         /\ [AccountsNext]_accountsVars /\ [UploadNext]_uploadVars /\ [MsgNext]_msgVars
  BY DEF PlatformNext

\* The platform that the run of MCPlatform explores does what its components
\* (routes/hostCertifications.js and experiences.js, discoverPlaza.js,
\* authSms.js, the limiter of media.js and the messages of im-api) do, each by itself.
THEOREM PlatformIsItsParts ==
  PlatformSpec =>
    HostSpec /\ PlazaSpec /\ FeedSpec /\ AccountsSpec /\ UploadSpec /\ MsgSpec
  BY PlatformBegins, PlatformSteps, PTL
  DEF PlatformSpec, HostSpec, PlazaSpec, FeedSpec, AccountsSpec, UploadSpec, MsgSpec

\* Every variable of every component has its type, for any constants, beside the
\* others as by itself.
THEOREM PlatformTypes == PlatformSpec => []PlatformTypeOK
  <1>1. /\ HostTypeOK /\ PlazaTypeOK /\ FeedTypeOK /\ AccountsTypeOK /\ UploadTypeOK /\ MsgTypeOK
        => PlatformTypeOK
    BY DEF PlatformTypeOK
  <1>2. MsgInv => MsgTypeOK
    BY DEF MsgInv
  <1> QED
    BY <1>1, <1>2, PlatformIsItsParts, HostTypes, PlazaTypes, FeedTypes, AccountsTypes, UploadTypes,
       RequestsKeepOrder, PTL
=============================================================================
