----------------------------- MODULE FfSampling -----------------------------
(***************************************************************************)
(* fft.py, fft_constants.py, and split and merge of common.py.  In place of *)
(* floating-point complex numbers, the numbers a + b*i modulo a prime P,    *)
(* -1 being no square: a field in which the same roots of unity have the    *)
(* same conjugates and sums, products and quotients are exact.  How         *)
(* rounding errors grow is left out; everything else of the algorithms is   *)
(* there.  A polynomial is a function on 0 .. n - 1, as the lists of the    *)
(* code, in either representation.                                          *)
(***************************************************************************)
EXTENDS Integers, SequencesExt

CONSTANTS
  P,     (* the prime                                                      *)
  Unit   (* a primitive 2N-th root of unity                                *)

(* The largest degree in the tables. *)
N == 1024

Complex == (0 .. P - 1) \X (0 .. P - 1)

ASSUME FftAssumption == /\ P % 4 = 3 /\ (P + 1) % (2 * N) = 0
                        /\ Unit \in Complex

(* Complex numbers *)

AsComplex(a) == <<a % P, 0>>

real(x) == <<x[1], 0>>

imag(x) == <<x[2], 0>>

conjugate(x) == <<x[1], (-x[2]) % P>>

Plus(x, y) == <<(x[1] + y[1]) % P, (x[2] + y[2]) % P>>

Minus(x) == <<(-x[1]) % P, (-x[2]) % P>>

Times(x, y) == <<(x[1] * y[1] - x[2] * y[2]) % P, (x[1] * y[2] + x[2] * y[1]) % P>>

RECURSIVE Power(_, _)
Power(x, k) ==
  IF k = 0 THEN AsComplex(1)
  ELSE LET r == Power(x, k \div 2)
       IN  IF k % 2 = 0 THEN Times(r, r) ELSE Times(x, Times(r, r))

(* 1/x is the conjugate of x over its square norm. *)
Over(x, y) ==
  Times(Times(x, conjugate(y)), Power(Times(y, conjugate(y)), P - 2))

(* Polynomials *)

Deg(f) == Cardinality(DOMAIN f)

(* The list of Entry(0) .. Entry(n - 1): a function joined with the empty   *)
(* one, which has TLC compute its entries once.                             *)
List(n, Entry(_)) == [i \in 0 .. n - 1 |-> Entry(i)] @@ << >>

split(f) ==
  LET every(r) == List(Deg(f) \div 2, LAMBDA i : f[2 * i + r]) IN <<every(0), every(1)>>

merge(fs) ==
  List(2 * Deg(fs[1]), LAMBDA i : IF i % 2 = 0 THEN fs[1][i \div 2] ELSE fs[2][i \div 2])

(***************************************************************************)
(* The tables of roots, as fft_constants.py lists them, entry by entry.     *)
(* phi<2n>_roots holds the roots of x^n + 1.  All are on the unit circle,   *)
(* and an entry is written as its angle: the multiple of half a turn over N *)
(* that its fifteen digits stand for, in -N + 1 .. N.                       *)
(***************************************************************************)
phi4_roots == <<512, -512>>

(* A fault: the roots in the order of their angles. *)
phi8_rootsByAngle == <<256, 768, -768, -256>>

phi8_roots == <<256, -768, -256, 768>>

phi16_roots == <<128, -896, -384, 640, -128, 896, 384, -640>>

phi32_roots ==
  <<64, -960, -448, 576, -192, 832, 320, -704, -64, 960, 448, -576, 192, -832, -320, 704>>

phi64_roots ==
  <<32, -992, -480, 544, -224, 800, 288, -736, -96, 928, 416, -608, 160, -864, -352, 672, -32, 992,
    480, -544, 224, -800, -288, 736, 96, -928, -416, 608, -160, 864, 352, -672>>

phi128_roots ==
  <<16, -1008, -496, 528, -240, 784, 272, -752, -112, 912, 400, -624, 144, -880, -368, 656, -48,
    976, 464, -560, 208, -816, -304, 720, 80, -944, -432, 592, -176, 848, 336, -688, -16, 1008, 496,
    -528, 240, -784, -272, 752, 112, -912, -400, 624, -144, 880, 368, -656, 48, -976, -464, 560,
    -208, 816, 304, -720, -80, 944, 432, -592, 176, -848, -336, 688>>

phi256_roots ==
  <<8, -1016, -504, 520, -248, 776, 264, -760, -120, 904, 392, -632, 136, -888, -376, 648, -56, 968,
    456, -568, 200, -824, -312, 712, 72, -952, -440, 584, -184, 840, 328, -696, -24, 1000, 488,
    -536, 232, -792, -280, 744, 104, -920, -408, 616, -152, 872, 360, -664, 40, -984, -472, 552,
    -216, 808, 296, -728, -88, 936, 424, -600, 168, -856, -344, 680, -8, 1016, 504, -520, 248, -776,
    -264, 760, 120, -904, -392, 632, -136, 888, 376, -648, 56, -968, -456, 568, -200, 824, 312,
    -712, -72, 952, 440, -584, 184, -840, -328, 696, 24, -1000, -488, 536, -232, 792, 280, -744,
    -104, 920, 408, -616, 152, -872, -360, 664, -40, 984, 472, -552, 216, -808, -296, 728, 88, -936,
    -424, 600, -168, 856, 344, -680>>

phi512_roots ==
  <<4, -1020, -508, 516, -252, 772, 260, -764, -124, 900, 388, -636, 132, -892, -380, 644, -60, 964,
    452, -572, 196, -828, -316, 708, 68, -956, -444, 580, -188, 836, 324, -700, -28, 996, 484, -540,
    228, -796, -284, 740, 100, -924, -412, 612, -156, 868, 356, -668, 36, -988, -476, 548, -220,
    804, 292, -732, -92, 932, 420, -604, 164, -860, -348, 676, -12, 1012, 500, -524, 244, -780,
    -268, 756, 116, -908, -396, 628, -140, 884, 372, -652, 52, -972, -460, 564, -204, 820, 308,
    -716, -76, 948, 436, -588, 180, -844, -332, 692, 20, -1004, -492, 532, -236, 788, 276, -748,
    -108, 916, 404, -620, 148, -876, -364, 660, -44, 980, 468, -556, 212, -812, -300, 724, 84, -940,
    -428, 596, -172, 852, 340, -684, -4, 1020, 508, -516, 252, -772, -260, 764, 124, -900, -388,
    636, -132, 892, 380, -644, 60, -964, -452, 572, -196, 828, 316, -708, -68, 956, 444, -580, 188,
    -836, -324, 700, 28, -996, -484, 540, -228, 796, 284, -740, -100, 924, 412, -612, 156, -868,
    -356, 668, -36, 988, 476, -548, 220, -804, -292, 732, 92, -932, -420, 604, -164, 860, 348, -676,
    12, -1012, -500, 524, -244, 780, 268, -756, -116, 908, 396, -628, 140, -884, -372, 652, -52,
    972, 460, -564, 204, -820, -308, 716, 76, -948, -436, 588, -180, 844, 332, -692, -20, 1004, 492,
    -532, 236, -788, -276, 748, 108, -916, -404, 620, -148, 876, 364, -660, 44, -980, -468, 556,
    -212, 812, 300, -724, -84, 940, 428, -596, 172, -852, -340, 684>>

phi1024_roots ==
  <<2, -1022, -510, 514, -254, 770, 258, -766, -126, 898, 386, -638, 130, -894, -382, 642, -62, 962,
    450, -574, 194, -830, -318, 706, 66, -958, -446, 578, -190, 834, 322, -702, -30, 994, 482, -542,
    226, -798, -286, 738, 98, -926, -414, 610, -158, 866, 354, -670, 34, -990, -478, 546, -222, 802,
    290, -734, -94, 930, 418, -606, 162, -862, -350, 674, -14, 1010, 498, -526, 242, -782, -270,
    754, 114, -910, -398, 626, -142, 882, 370, -654, 50, -974, -462, 562, -206, 818, 306, -718, -78,
    946, 434, -590, 178, -846, -334, 690, 18, -1006, -494, 530, -238, 786, 274, -750, -110, 914,
    402, -622, 146, -878, -366, 658, -46, 978, 466, -558, 210, -814, -302, 722, 82, -942, -430, 594,
    -174, 850, 338, -686, -6, 1018, 506, -518, 250, -774, -262, 762, 122, -902, -390, 634, -134,
    890, 378, -646, 58, -966, -454, 570, -198, 826, 314, -710, -70, 954, 442, -582, 186, -838, -326,
    698, 26, -998, -486, 538, -230, 794, 282, -742, -102, 922, 410, -614, 154, -870, -358, 666, -38,
    986, 474, -550, 218, -806, -294, 730, 90, -934, -422, 602, -166, 858, 346, -678, 10, -1014,
    -502, 522, -246, 778, 266, -758, -118, 906, 394, -630, 138, -886, -374, 650, -54, 970, 458,
    -566, 202, -822, -310, 714, 74, -950, -438, 586, -182, 842, 330, -694, -22, 1002, 490, -534,
    234, -790, -278, 746, 106, -918, -406, 618, -150, 874, 362, -662, 42, -982, -470, 554, -214,
    810, 298, -726, -86, 938, 426, -598, 170, -854, -342, 682, -2, 1022, 510, -514, 254, -770, -258,
    766, 126, -898, -386, 638, -130, 894, 382, -642, 62, -962, -450, 574, -194, 830, 318, -706, -66,
    958, 446, -578, 190, -834, -322, 702, 30, -994, -482, 542, -226, 798, 286, -738, -98, 926, 414,
    -610, 158, -866, -354, 670, -34, 990, 478, -546, 222, -802, -290, 734, 94, -930, -418, 606,
    -162, 862, 350, -674, 14, -1010, -498, 526, -242, 782, 270, -754, -114, 910, 398, -626, 142,
    -882, -370, 654, -50, 974, 462, -562, 206, -818, -306, 718, 78, -946, -434, 590, -178, 846, 334,
    -690, -18, 1006, 494, -530, 238, -786, -274, 750, 110, -914, -402, 622, -146, 878, 366, -658,
    46, -978, -466, 558, -210, 814, 302, -722, -82, 942, 430, -594, 174, -850, -338, 686, 6, -1018,
    -506, 518, -250, 774, 262, -762, -122, 902, 390, -634, 134, -890, -378, 646, -58, 966, 454,
    -570, 198, -826, -314, 710, 70, -954, -442, 582, -186, 838, 326, -698, -26, 998, 486, -538, 230,
    -794, -282, 742, 102, -922, -410, 614, -154, 870, 358, -666, 38, -986, -474, 550, -218, 806,
    294, -730, -90, 934, 422, -602, 166, -858, -346, 678, -10, 1014, 502, -522, 246, -778, -266,
    758, 118, -906, -394, 630, -138, 886, 374, -650, 54, -970, -458, 566, -202, 822, 310, -714, -74,
    950, 438, -586, 182, -842, -330, 694, 22, -1002, -490, 534, -234, 790, 278, -746, -106, 918,
    406, -618, 150, -874, -362, 662, -42, 982, 470, -554, 214, -810, -298, 726, 86, -938, -426, 598,
    -170, 854, 342, -682>>

phi2048_roots ==
  <<1, -1023, -511, 513, -255, 769, 257, -767, -127, 897, 385, -639, 129, -895, -383, 641, -63, 961,
    449, -575, 193, -831, -319, 705, 65, -959, -447, 577, -191, 833, 321, -703, -31, 993, 481, -543,
    225, -799, -287, 737, 97, -927, -415, 609, -159, 865, 353, -671, 33, -991, -479, 545, -223, 801,
    289, -735, -95, 929, 417, -607, 161, -863, -351, 673, -15, 1009, 497, -527, 241, -783, -271,
    753, 113, -911, -399, 625, -143, 881, 369, -655, 49, -975, -463, 561, -207, 817, 305, -719, -79,
    945, 433, -591, 177, -847, -335, 689, 17, -1007, -495, 529, -239, 785, 273, -751, -111, 913,
    401, -623, 145, -879, -367, 657, -47, 977, 465, -559, 209, -815, -303, 721, 81, -943, -431, 593,
    -175, 849, 337, -687, -7, 1017, 505, -519, 249, -775, -263, 761, 121, -903, -391, 633, -135,
    889, 377, -647, 57, -967, -455, 569, -199, 825, 313, -711, -71, 953, 441, -583, 185, -839, -327,
    697, 25, -999, -487, 537, -231, 793, 281, -743, -103, 921, 409, -615, 153, -871, -359, 665, -39,
    985, 473, -551, 217, -807, -295, 729, 89, -935, -423, 601, -167, 857, 345, -679, 9, -1015, -503,
    521, -247, 777, 265, -759, -119, 905, 393, -631, 137, -887, -375, 649, -55, 969, 457, -567, 201,
    -823, -311, 713, 73, -951, -439, 585, -183, 841, 329, -695, -23, 1001, 489, -535, 233, -791,
    -279, 745, 105, -919, -407, 617, -151, 873, 361, -663, 41, -983, -471, 553, -215, 809, 297,
    -727, -87, 937, 425, -599, 169, -855, -343, 681, -3, 1021, 509, -515, 253, -771, -259, 765, 125,
    -899, -387, 637, -131, 893, 381, -643, 61, -963, -451, 573, -195, 829, 317, -707, -67, 957, 445,
    -579, 189, -835, -323, 701, 29, -995, -483, 541, -227, 797, 285, -739, -99, 925, 413, -611, 157,
    -867, -355, 669, -35, 989, 477, -547, 221, -803, -291, 733, 93, -931, -419, 605, -163, 861, 349,
    -675, 13, -1011, -499, 525, -243, 781, 269, -755, -115, 909, 397, -627, 141, -883, -371, 653,
    -51, 973, 461, -563, 205, -819, -307, 717, 77, -947, -435, 589, -179, 845, 333, -691, -19, 1005,
    493, -531, 237, -787, -275, 749, 109, -915, -403, 621, -147, 877, 365, -659, 45, -979, -467,
    557, -211, 813, 301, -723, -83, 941, 429, -595, 173, -851, -339, 685, 5, -1019, -507, 517, -251,
    773, 261, -763, -123, 901, 389, -635, 133, -891, -379, 645, -59, 965, 453, -571, 197, -827,
    -315, 709, 69, -955, -443, 581, -187, 837, 325, -699, -27, 997, 485, -539, 229, -795, -283, 741,
    101, -923, -411, 613, -155, 869, 357, -667, 37, -987, -475, 549, -219, 805, 293, -731, -91, 933,
    421, -603, 165, -859, -347, 677, -11, 1013, 501, -523, 245, -779, -267, 757, 117, -907, -395,
    629, -139, 885, 373, -651, 53, -971, -459, 565, -203, 821, 309, -715, -75, 949, 437, -587, 181,
    -843, -331, 693, 21, -1003, -491, 533, -235, 789, 277, -747, -107, 917, 405, -619, 149, -875,
    -363, 661, -43, 981, 469, -555, 213, -811, -299, 725, 85, -939, -427, 597, -171, 853, 341, -683,
    -1, 1023, 511, -513, 255, -769, -257, 767, 127, -897, -385, 639, -129, 895, 383, -641, 63, -961,
    -449, 575, -193, 831, 319, -705, -65, 959, 447, -577, 191, -833, -321, 703, 31, -993, -481, 543,
    -225, 799, 287, -737, -97, 927, 415, -609, 159, -865, -353, 671, -33, 991, 479, -545, 223, -801,
    -289, 735, 95, -929, -417, 607, -161, 863, 351, -673, 15, -1009, -497, 527, -241, 783, 271,
    -753, -113, 911, 399, -625, 143, -881, -369, 655, -49, 975, 463, -561, 207, -817, -305, 719, 79,
    -945, -433, 591, -177, 847, 335, -689, -17, 1007, 495, -529, 239, -785, -273, 751, 111, -913,
    -401, 623, -145, 879, 367, -657, 47, -977, -465, 559, -209, 815, 303, -721, -81, 943, 431, -593,
    175, -849, -337, 687, 7, -1017, -505, 519, -249, 775, 263, -761, -121, 903, 391, -633, 135,
    -889, -377, 647, -57, 967, 455, -569, 199, -825, -313, 711, 71, -953, -441, 583, -185, 839, 327,
    -697, -25, 999, 487, -537, 231, -793, -281, 743, 103, -921, -409, 615, -153, 871, 359, -665, 39,
    -985, -473, 551, -217, 807, 295, -729, -89, 935, 423, -601, 167, -857, -345, 679, -9, 1015, 503,
    -521, 247, -777, -265, 759, 119, -905, -393, 631, -137, 887, 375, -649, 55, -969, -457, 567,
    -201, 823, 311, -713, -73, 951, 439, -585, 183, -841, -329, 695, 23, -1001, -489, 535, -233,
    791, 279, -745, -105, 919, 407, -617, 151, -873, -361, 663, -41, 983, 471, -553, 215, -809,
    -297, 727, 87, -937, -425, 599, -169, 855, 343, -681, 3, -1021, -509, 515, -253, 771, 259, -765,
    -125, 899, 387, -637, 131, -893, -381, 643, -61, 963, 451, -573, 195, -829, -317, 707, 67, -957,
    -445, 579, -189, 835, 323, -701, -29, 995, 483, -541, 227, -797, -285, 739, 99, -925, -413, 611,
    -157, 867, 355, -669, 35, -989, -477, 547, -221, 803, 291, -733, -93, 931, 419, -605, 163, -861,
    -349, 675, -13, 1011, 499, -525, 243, -781, -269, 755, 115, -909, -397, 627, -141, 883, 371,
    -653, 51, -973, -461, 563, -205, 819, 307, -717, -77, 947, 435, -589, 179, -845, -333, 691, 19,
    -1005, -493, 531, -237, 787, 275, -749, -109, 915, 403, -621, 147, -877, -365, 659, -45, 979,
    467, -557, 211, -813, -301, 723, 83, -941, -429, 595, -173, 851, 339, -685, -5, 1019, 507, -517,
    251, -773, -261, 763, 123, -901, -389, 635, -133, 891, 379, -645, 59, -965, -453, 571, -197,
    827, 315, -709, -69, 955, 443, -581, 187, -837, -325, 699, 27, -997, -485, 539, -229, 795, 283,
    -741, -101, 923, 411, -613, 155, -869, -357, 667, -37, 987, 475, -549, 219, -805, -293, 731, 91,
    -933, -421, 603, -165, 859, 347, -677, 11, -1013, -501, 523, -245, 779, 267, -757, -117, 907,
    395, -629, 139, -885, -373, 651, -53, 971, 459, -565, 203, -821, -309, 715, 75, -949, -437, 587,
    -181, 843, 331, -693, -21, 1003, 491, -533, 235, -789, -277, 747, 107, -917, -405, 619, -149,
    875, 363, -661, 43, -981, -469, 555, -213, 811, 299, -725, -85, 939, 427, -597, 171, -853, -341,
    683>>

roots_dict(n) ==
  CASE n = 2 -> phi4_roots [] n = 4 -> phi8_roots [] n = 8 -> phi16_roots
    [] n = 16 -> phi32_roots [] n = 32 -> phi64_roots [] n = 64 -> phi128_roots
    [] n = 128 -> phi256_roots [] n = 256 -> phi512_roots
    [] n = 512 -> phi1024_roots [] n = 1024 -> phi2048_roots

(* The roots themselves. *)
Root == List(2 * N, LAMBDA angle : Power(Unit, angle))

w(n, i) == Root[roots_dict(n)[i + 1] % (2 * N)]

(* The transform, and back *)

Half == Power(AsComplex(2), P - 2)

(* A fault: the root itself in place of its conjugate, its inverse. *)
split_fftForward(f) ==
  LET sum(i) == Plus(f[2 * i], f[2 * i + 1])
      difference(i) == Plus(f[2 * i], Minus(f[2 * i + 1]))
  IN  <<List(Deg(f) \div 2, LAMBDA i : Times(Half, sum(i))),
        List(Deg(f) \div 2, LAMBDA i : Times(Times(Half, difference(i)), w(Deg(f), 2 * i)))>>

split_fft(f) ==
  LET sum(i) == Plus(f[2 * i], f[2 * i + 1])
      difference(i) == Plus(f[2 * i], Minus(f[2 * i + 1]))
  IN  <<List(Deg(f) \div 2, LAMBDA i : Times(Half, sum(i))),
        List(Deg(f) \div 2, LAMBDA i : Times(Times(Half, difference(i)),
                                             conjugate(w(Deg(f), 2 * i))))>>

merge_fft(fs) ==
  LET deg == 2 * Deg(fs[1])
      term(i) == Times(w(deg, 2 * i), fs[2][i])
  IN  List(deg, LAMBDA k : Plus(fs[1][k \div 2],
                                IF k % 2 = 0 THEN term(k \div 2) ELSE Minus(term(k \div 2))))

RECURSIVE fft(_)
fft(f) ==
  IF Deg(f) = 2
    THEN LET i_f1 == Times(<<0, 1>>, f[1])
         IN  List(2, LAMBDA k : Plus(f[0], IF k = 0 THEN i_f1 ELSE Minus(i_f1)))
    ELSE merge_fft(<<fft(split(f)[1]), fft(split(f)[2])>>)

RECURSIVE ifft(_)
ifft(f) ==
  IF Deg(f) = 2 THEN List(2, LAMBDA k : IF k = 0 THEN real(f[0]) ELSE imag(f[0]))
  ELSE merge(<<ifft(split_fft(f)[1]), ifft(split_fft(f)[2])>>)

(* Arithmetic in either representation: add, sub and neg work for both. *)

add(f, g) == List(Deg(f), LAMBDA i : Plus(f[i], g[i]))

neg(f) == List(Deg(f), LAMBDA i : Minus(f[i]))

sub(f, g) == add(f, neg(g))

add_fft(f, g) == add(f, g)

sub_fft(f, g) == sub(f, g)

mul_fft(f, g) == List(Deg(f), LAMBDA i : Times(f[i], g[i]))

div_fft(f, g) == List(Deg(f), LAMBDA i : Over(f[i], g[i]))

adj_fft(f) == List(Deg(f), LAMBDA i : conjugate(f[i]))

mul(f, g) == ifft(mul_fft(fft(f), fft(g)))

div(f, g) == ifft(div_fft(fft(f), fft(g)))

adj(f) == ifft(adj_fft(fft(f)))

(***************************************************************************)
(* ffsampling.py and normalize_tree of falcon.py: the Gram matrix of a      *)
(* basis, its LDL tree, and the two walks down the tree, which round to     *)
(* integers (ffnp) or sample them (ffsampling).  The rounding and the       *)
(* sampler are arguments: which integer they give is left open.             *)
(***************************************************************************)
Zero(n) == List(n, LAMBDA i : AsComplex(0))

(* Body(x), for a long x that Body names often. *)
Given(x, Body(_)) == [y \in {x} |-> Body(y)][x]

(* G[i][j] is the sum of B[i][k] * adj(B[j][k]). *)
gram(B) ==
  [i, j \in DOMAIN B |->
     FoldLeft(add, Zero(Deg(B[1][1])),
              [k \in DOMAIN B[1] |-> mul(B[i][k], adj(B[j][k]))])]

(* The one entry of L that is not 0 or 1, and the diagonal of D. *)
ldl(G) ==
  Given(div(G[2, 1], G[1, 1]), LAMBDA L10 :
    [L10 |-> L10, D00 |-> G[1, 1],
     D11 |-> sub(G[2, 2], mul(mul(L10, adj(L10)), G[1, 1]))])

ldl_fft(G) ==
  Given(div_fft(G[2, 1], G[1, 1]), LAMBDA L10 :
    [L10 |-> L10, D00 |-> G[1, 1],
     D11 |-> sub_fft(G[2, 2], mul_fft(mul_fft(L10, adj_fft(L10)), G[1, 1]))])

(* A fault: the adjoint of the wrong entry. *)
BisectedTransposed(d0, d1, adjoint) ==
  [i, j \in 1 .. 2 |-> IF i = j THEN d0 ELSE IF i = 2 THEN d1 ELSE adjoint]

(* The Gram matrix of the halves of d. *)
Bisected(d0, d1, adjoint) ==
  [i, j \in 1 .. 2 |-> IF i = j THEN d0 ELSE IF i = 1 THEN d1 ELSE adjoint]

Node(l10, T0, T1) == [l10 |-> l10, T0 |-> T0, T1 |-> T1]

(* A tree is a node, or a leaf: a list of two numbers. *)
IsLeaf(T) == DOMAIN T = 0 .. 1

RECURSIVE ffldl(_)
ffldl(G) ==
  Given(ldl(G), LAMBDA M :
    LET d0 == split(M.D00)
        d1 == split(M.D11)
        Constant(d) == [d EXCEPT ![1] = AsComplex(0)]
    IN
    IF Deg(M.D00) > 2
      THEN Node(M.L10, ffldl(Bisected(d0[1], d0[2], adj(d0[2]))),
                       ffldl(Bisected(d1[1], d1[2], adj(d1[2]))))
      ELSE Node(M.L10, Constant(M.D00), Constant(M.D11)))

RECURSIVE ffldl_fft(_)
ffldl_fft(G) ==
  Given(ldl_fft(G), LAMBDA M :
    LET d0 == split_fft(M.D00)
        d1 == split_fft(M.D11)
    IN
    IF Deg(M.D00) > 2
      THEN Node(M.L10, ffldl_fft(Bisected(d0[1], d0[2], adj_fft(d0[2]))),
                       ffldl_fft(Bisected(d1[1], d1[2], adj_fft(d1[2]))))
      ELSE Node(M.L10, M.D00, M.D11))

(* The code divides sigma by the root of the real part; the model keeps the *)
(* square of that, sigma^2 over the real part.                              *)
RECURSIVE normalize_tree(_, _)
normalize_tree(T, sigma2) ==
  IF IsLeaf(T)
    THEN List(2, LAMBDA i : IF i = 0 THEN Over(sigma2, real(T[0])) ELSE AsComplex(0))
    ELSE Node(T.l10, normalize_tree(T.T0, sigma2), normalize_tree(T.T1, sigma2))

(* Nearest plane: z[2] first, and with it what is left for z[1].  `round' is *)
(* the function that takes a number to an integer.                          *)
RECURSIVE ffnp(_, _, _)
ffnp(t, T, round) ==
  IF Deg(t[1]) = 1 THEN [i \in 1 .. 2 |-> List(1, LAMBDA k : round[t[i][0]])]
  ELSE Given(merge(ffnp(split(t[2]), T.T1, round)), LAMBDA z2 :
         Given(add(t[1], mul(sub(t[2], z2), T.l10)), LAMBDA t1b :
           <<merge(ffnp(split(t1b), T.T0, round)), z2>>))

RECURSIVE ffnp_fft(_, _, _)
ffnp_fft(t, T, round) ==
  IF Deg(t[1]) = 1 THEN [i \in 1 .. 2 |-> List(1, LAMBDA k : round[real(t[i][0])])]
  ELSE Given(merge_fft(ffnp_fft(split_fft(t[2]), T.T1, round)), LAMBDA z2 :
         Given(add_fft(t[1], mul_fft(sub_fft(t[2], z2), T.l10)), LAMBDA t1b :
           <<merge_fft(ffnp_fft(split_fft(t1b), T.T0, round)), z2>>))

(* The same walk with samplerz in place of rounding; the integers it        *)
(* returns are on the tape.  `calls' are the calls made, in their order.    *)
RECURSIVE ffsampling_fft(_, _, _)
ffsampling_fft(t, T, tape) ==
  IF Deg(t[1]) = 1
    THEN [z |-> [i \in 1 .. 2 |-> List(1, LAMBDA k : tape[i])],
          calls |-> [i \in 1 .. 2 |-> [mu |-> real(t[i][0]), sigma2 |-> T[0], z |-> tape[i]]]]
    ELSE Given(ffsampling_fft(split_fft(t[2]), T.T1, tape), LAMBDA right :
           Given(merge_fft(right.z), LAMBDA z2 :
             LET t1b == add_fft(t[1], mul_fft(sub_fft(t[2], z2), T.l10))
                 rest == SubSeq(tape, Len(right.calls) + 1, Len(tape))
             IN  Given(ffsampling_fft(split_fft(t1b), T.T0, rest), LAMBDA left :
                   [z |-> <<merge_fft(left.z), z2>>, calls |-> right.calls \o left.calls])))

=============================================================================
