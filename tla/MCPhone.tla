------------------------------- MODULE MCPhone -------------------------------
(***************************************************************************)
(* The parts of the phone app, for model checking. They share no state in  *)
(* these modules, so one run checks them all: each behaviour is about one  *)
(* of them, and the others stay where they are.                            *)
(***************************************************************************)
EXTENDS MobileAuth, AuthBridge, MobilePlayer, PlayHistory, MobileAudio,
        MobileFavorites, RadioSearch, MobileScreens, MobileDiscussion

VARIABLE phonePart   \* the part this behaviour is about

phoneVars ==
    <<phonePart, authVars, bridgeVars, mobVars, histVars, eqVars, mfVars, rsVars,
      msVars, mdVars>>

PhonePart ==
    {"sign-in", "bridge", "radio", "history", "audio", "hearts", "search",
     "screens", "talk"}

\* The part that moves starts in any of its initial states, the others in one.
PhoneInit ==
    /\ phonePart \in PhonePart
    /\ AuthInit /\ (phonePart = "sign-in" \/ store = {})
    /\ BridgeInit
    /\ MobInit
    /\ HistInit
    /\ EqInit
    /\ MfInit /\ (phonePart = "hearts" \/ mfRepo = [u \in MfUser |-> {}])
    /\ RsInit
    /\ MsInit /\ (phonePart = "screens" \/ msUser = MsNoUser)
    /\ MdInit /\ (phonePart = "talk" \/ ~mdDid)

\* The other parts stay as they are.
Only(name) ==
    /\ phonePart = name /\ UNCHANGED phonePart
    /\ (name # "sign-in" => UNCHANGED authVars)
    /\ (name # "bridge" => UNCHANGED bridgeVars)
    /\ (name # "radio" => UNCHANGED mobVars)
    /\ (name # "history" => UNCHANGED histVars)
    /\ (name # "audio" => UNCHANGED eqVars)
    /\ (name # "hearts" => UNCHANGED mfVars)
    /\ (name # "search" => UNCHANGED rsVars)
    /\ (name # "screens" => UNCHANGED msVars)
    /\ (name # "talk" => UNCHANGED mdVars)

AuthStep   == Only("sign-in") /\ AuthNext
BridgeStep == Only("bridge") /\ BridgeNext
MobStep    == Only("radio") /\ MobNext
HistStep   == Only("history") /\ HistNext
EqStep     == Only("audio") /\ EqNext
MfStep     == Only("hearts") /\ MfNext
RsStep     == Only("search") /\ RsNext
MsStep     == Only("screens") /\ MsNext
MdStep     == Only("talk") /\ MdNext

PhoneNext ==
    \/ AuthStep \/ BridgeStep \/ MobStep \/ HistStep \/ EqStep \/ MfStep \/ RsStep
    \/ MsStep \/ MdStep

\* The fairness each part states, for the behaviours that are about it.
PhoneFairness ==
    /\ WF_authVars(phonePart = "sign-in" /\ PollScreen)
    /\ WF_authVars(phonePart = "sign-in" /\ PollRestored)
    /\ WF_authVars(phonePart = "sign-in" /\ AuthRefresh)
    /\ WF_authVars(phonePart = "sign-in" /\ Refreshed)
    /\ WF_authVars(phonePart = "sign-in" /\ UrlCreated)
    /\ WF_authVars(phonePart = "sign-in" /\ Finalized)
    /\ WF_authVars(phonePart = "sign-in" /\ Restored)
    /\ WF_authVars(phonePart = "sign-in" /\ Acted)
    /\ WF_authVars(phonePart = "sign-in" /\ LoggingOut)
    /\ WF_authVars(phonePart = "sign-in" /\ LoggedOut)
    /\ WF_histVars(phonePart = "history" /\ Repoll)
    /\ WF_histVars(phonePart = "history" /\ Land)
    /\ WF_histVars(phonePart = "history" /\ Acknowledge)
    /\ WF_histVars(phonePart = "history" /\ RetryDue)
    /\ WF_eqVars(phonePart = "audio" /\ Restore)
    /\ WF_eqVars(phonePart = "audio" /\ RefetchRecord)
    /\ WF_eqVars(phonePart = "audio" /\ SaveDue)
    /\ WF_eqVars(phonePart = "audio" /\ Save)
    /\ WF_eqVars(phonePart = "audio" /\ RetrySave)

PhoneSpec == PhoneInit /\ [][PhoneNext]_phoneVars /\ PhoneFairness
==============================================================================
