------------------------------- MODULE Bitmap -------------------------------
(***************************************************************************)
(* Which sub-documents a device supports (common/bitmap.go and             *)
(* common/firmware_bitmap.go).  The header X-System-Supported-Docs lists   *)
(* 32-bit numbers, a group in the upper 8 bits and the group's bits in the *)
(* lower 24; SupportedDocsBitMaskMap says which bit of the device's bitmap *)
(* each of them sets, SubdocBitIndexMap which sub-document that bit is.    *)
(*                                                                         *)
(* Bits are counted from 1.  The bitmap of a device, an int of 64 bits, is *)
(* the set of the bits that are 1.                                         *)
(***************************************************************************)
EXTENDS Integers, Sequences

\* the pairs <<GroupBit, CpeBit>> of each group
SupportedDocsBitMaskMap ==
    << {<<1, 1>>, <<2, 2>>, <<3, 3>>, <<4, 4>>, <<5, 5>>, <<6, 6>>,
        <<7, 29>>, <<8, 35>>, <<9, 40>>},
       {<<1, 7>>, <<2, 8>>, <<3, 9>>},
       {<<1, 10>>}, {<<1, 11>>}, {<<1, 12>>},
       {<<1, 13>>, <<2, 31>>, <<3, 36>>, <<4, 37>>, <<5, 38>>, <<6, 39>>,
        <<7, 34>>, <<8, 41>>},
       {<<1, 14>>},
       {<<1, 15>>, <<2, 32>>, <<3, 33>>},
       {<<1, 16>>, <<2, 17>>},
       {<<1, 18>>, <<2, 19>>},
       {<<1, 20>>, <<2, 25>>},
       {<<1, 21>>, <<2, 23>>},
       {<<1, 22>>}, {<<1, 24>>},
       {<<1, 26>>, <<2, 27>>},
       {<<1, 28>>}, {<<1, 30>>} >>

SubdocBitIndexMap ==
    [portforwarding |-> 1, lan |-> 2, wan |-> 3, macbinding |-> 4,
     hotspot |-> 5, bridge |-> 6, privatessid |-> 7, homessid |-> 8,
     radio |-> 9, moca |-> 10, xdns |-> 11, advsecurity |-> 12, mesh |-> 13,
     aker |-> 14, telemetry |-> 15, statusreport |-> 16, trafficreport |-> 17,
     interfacereport |-> 18, radioreport |-> 19, telcovoip |-> 20,
     wanmanager |-> 21, voiceservice |-> 22, wanfailover |-> 23,
     cellularconfig |-> 24, telcovoice |-> 25, gwfailover |-> 26,
     gwrestore |-> 27, prioritizedmacs |-> 28, connectedbuilding |-> 29,
     lldqoscontrol |-> 30, clienttosteeringprofile |-> 31, defaultrfc |-> 32,
     rfc |-> 33, wifimotionsettings |-> 34, xmspeedboost |-> 35,
     meshsteeringprofiles |-> 36, wifistatsconfig |-> 37, mwoconfigs |-> 38,
     interference |-> 39, webui |-> 40, channelplan |-> 41]

-----------------------------------------------------------------------------
\* an item of the header: a number, or what strconv.Atoi rejects
Malformed == -1

Bit(n, k) == (n \div 2^(k - 1)) % 2 = 1

\* the group and the group's bits in a number
ParseFirmwareGroupBitarray(i) == [group |-> i \div 2^24, bits |-> i % 2^24]

\* Mutant: bits counted from 0
BitmapByGroupFromZero(groupId, groupBitmap) ==
    IF groupId \notin DOMAIN SupportedDocsBitMaskMap THEN {}
    ELSE {t[2] : t \in {u \in SupportedDocsBitMaskMap[groupId] : Bit(groupBitmap, u[1] + 1)}}

\* the bits SetBitmapByGroup sets; a group it does not know sets none
BitmapByGroup(groupId, groupBitmap) ==
    IF groupId \notin DOMAIN SupportedDocsBitMaskMap THEN {}
    ELSE {t[2] : t \in {u \in SupportedDocsBitMaskMap[groupId] : Bit(groupBitmap, u[1])}}

\* one item that is no number makes the whole bitmap 0
GetCpeBitmap(items) ==
    IF \E n \in DOMAIN items : items[n] = Malformed THEN {}
    ELSE UNION {LET p == ParseFirmwareGroupBitarray(items[n])
                IN  BitmapByGroup(p.group, p.bits) : n \in DOMAIN items}

GetSupportedMap(cpeBitmap) ==
    [s \in DOMAIN SubdocBitIndexMap |-> SubdocBitIndexMap[s] \in cpeBitmap]
=============================================================================
