----------------------------- MODULE SettingsMC -----------------------------
EXTENDS Settings

L(h, p) == [host |-> h, port |-> p]

MCDefault == L("any", "8787")
MCLayers == {L("unset", "unset"), L("unset", "9393"), L("unset", "bad"),
             L("lan", "unset"), L("any", "9500"), L("lan", "9393"),
             L("loopback", "unset"), L("unset", "0"), L("unset", "99999")}
MCUrls == {Unset, L("lan", "9500")}
=============================================================================
