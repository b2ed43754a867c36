-------------------------------- MODULE WifiScan --------------------------------
(***************************************************************************)
(* The pure parts of openwrt/wifi_scanner.rs.  The text iwinfo prints for  *)
(* a cell is abstracted to its signal and the set of the words             *)
(* detect_encryption looks for.                                            *)
(***************************************************************************)
EXTENDS Integers, Sequences, FiniteSets, SequencesExt

\* The order of the tests matters; "wpa2" and "wpa3" contain "wpa".
DetectEncryption(words) ==
    LET any(ws) == words \cap ws # {}
    IN  IF any({"none", "open"}) THEN "None"
        ELSE IF any({"wep"}) THEN "Wep"
        ELSE IF any({"sae"}) THEN IF any({"mixed", "wpa2", "wpa3"}) THEN "SaeMixed" ELSE "Sae"
        ELSE IF any({"eap", "802.1x"}) THEN "Wpa2Eap"
        ELSE IF any({"wpa2"}) THEN IF {"psk", "ccmp"} \subseteq words THEN "Psk2Ccmp" ELSE "Psk2"
        ELSE IF any({"wpa", "wpa3"}) THEN "Psk"
        ELSE IF words = {} THEN "None" ELSE "Unknown"

ToUciValue(encryption) ==
    CASE encryption = "None"                                -> "none"
      [] encryption = "Wep"                                 -> "wep"
      [] encryption = "Psk"                                 -> "psk"
      [] encryption \in {"Psk2", "Psk2Ccmp", "Unknown"}     -> "psk2"
      [] encryption = "Sae"                                 -> "sae"
      [] encryption = "SaeMixed"                            -> "sae-mixed"
      [] encryption = "Wpa2Eap"                             -> "wpa2-eap"

\* parse_iwinfo_output: the cells that have a name, strongest first.
ParseIwinfo(cells, radio) ==
    LET named == {c \in cells : c.ssid # ""}
    IN  SetToSortSeq({[ssid |-> c.ssid, signal |-> c.signal, radio |-> radio,
                       encryption |-> DetectEncryption(c.words)] : c \in named},
                     LAMBDA a, b : a.signal > b.signal)

\* The stable sort of scan_all_radios and max_by_key, which returns the last of
\* the greatest: of two equal signals the one of the later radio.
BestRadio(results, ssid, none) ==
    LET of == {r \in results : r.ssid = ssid}
        best == {r \in of : \A s \in of : s.signal <= r.signal}
    IN  IF of = {} THEN none
        ELSE (CHOOSE r \in best : \A s \in best : s.radio <= r.radio).radio
===============================================================================
